---- MODULE Spec2Model ----
(***************************************************************************)
(* String.prototype built-ins of the interpreter                           *)
(* (jerry-core/ecma/builtin-objects/ecma-builtin-string-prototype.cpp).    *)
(*                                                                         *)
(* Strings are sequences of UTF-16 code units (integers).  Completion      *)
(* values are records with a type of "empty", "normal" or "throw".  A      *)
(* failed JERRY_ASSERT stops the engine: the routine ends in pc = "fatal". *)
(***************************************************************************)
EXTENDS Integers, Sequences, FiniteSets, TLC

(* ------------------------------ bounds -------------------------------- *)

\* longest subject string, in code units
MaxLen == 2
\* longest replacement template of the template specification
MaxTplLen == 3
\* how often a replacement function may write the regexp's lastIndex
MaxCbWrites == 1
\* longest string given to the routines that make no calls
MaxStrLen == 3

(* ------------------------- character constants ------------------------ *)

LIT_CHAR_NULL == 0
LIT_CHAR_DOLLAR_SIGN == 36
LIT_CHAR_AMPERSAND == 38
LIT_CHAR_SINGLE_QUOTE == 39
LIT_CHAR_0 == 48
LIT_CHAR_1 == 49
LIT_CHAR_2 == 50
LIT_CHAR_9 == 57
LIT_CHAR_GRAVE_ACCENT == 96
LIT_CHAR_LOWERCASE_A == 97
LIT_CHAR_LOWERCASE_B == 98
LIT_CHAR_LOWERCASE_X == 120

(* ------------------------------ strings ------------------------------- *)

\* all code-unit sequences over alphabet of length at most n
StringsUpTo(alphabet, n) == UNION {[1..k -> alphabet] : k \in 0..n}

\* ecma_string_get_length: the number of code units
ecma_string_get_length(s) == Len(s)

\* ecma_string_substr (s, start, end): code units start .. end-1 (0-based)
ecma_string_substr(s, start, end) == SubSeq(s, start + 1, end)

\* ecma_concat_ecma_strings
ecma_concat_ecma_strings(a, b) == a \o b

(* ------------------------------- values ------------------------------- *)

Undefined == [t |-> "undefined"]
Null == [t |-> "null"]
StrV(s) == [t |-> "string", s |-> s]
NumV(n) == [t |-> "number", n |-> n]
\* an object whose user-level toString throws
ThrowingObj == [t |-> "object", class |-> "Object"]
\* the regular expression object; its mutable state is the variable regexp
RegExpObj == [t |-> "object", class |-> "RegExp"]
\* a callable object
FuncObj == [t |-> "object", class |-> "Function"]
\* an array object and its elements
ArrayObj(elems) == [t |-> "object", class |-> "Array", elems |-> elems]
\* the array an exec returns: index and the capture strings (entry 0 first)
MatchObj(index, elems) == [t |-> "object", class |-> "Array", index |-> index, elems |-> elems]

ecma_is_value_null(v) == v.t = "null"
ecma_is_value_undefined(v) == v.t = "undefined"
ecma_is_value_string(v) == v.t = "string"
ecma_op_is_callable(v) == v.t = "object" /\ v.class = "Function"
IsRegExpObject(v) == v.t = "object" /\ v.class = "RegExp"

(* --------------------------- completion values ------------------------ *)

EmptyCompletion == [type |-> "empty"]
NormalCompletion(v) == [type |-> "normal", value |-> v]
\* a thrown error, tagged with the step that raised it
ThrowCompletion(tag) == [type |-> "throw", value |-> [t |-> "object", class |-> "Error", tag |-> tag]]

ecma_is_completion_value_empty(c) == c.type = "empty"
ecma_is_completion_value_throw(c) == c.type = "throw"

\* decimal digits of a small non-negative number, as code units
RECURSIVE DecimalDigits(_)
DecimalDigits(n) ==
  IF n < 10 THEN <<LIT_CHAR_0 + n>>
  ELSE DecimalDigits(n \div 10) \o <<LIT_CHAR_0 + (n % 10)>>

\* ecma_op_check_object_coercible: undefined and null are not coercible
ecma_op_check_object_coercible(v) ==
  IF v.t \in {"undefined", "null"} THEN ThrowCompletion("coercible") ELSE NormalCompletion(Undefined)

\* ecma_op_to_string of the values of this model; tag names the argument coerced
ecma_op_to_string(v, tag) ==
  CASE v.t = "string" -> NormalCompletion(v)
    [] v.t = "number" -> NormalCompletion(StrV(DecimalDigits(v.n)))
    [] OTHER -> ThrowCompletion(tag)

\* the number NaN
NaNV == [t |-> "nan"]

\* ecma_op_to_number of the values of this model: undefined is NaN
ecma_op_to_number(v, tag) ==
  CASE v.t = "number" -> NormalCompletion(v)
    [] v.t = "nan" -> NormalCompletion(v)
    [] v.t = "undefined" -> NormalCompletion(NaNV)
    [] OTHER -> ThrowCompletion(tag)

\* the index normalisation of the specification: NaN is 0, a negative number
\* counts from the end (not below 0), any other is at most the length
normalize_relative_index(num, length) ==
  IF num.t = "nan" THEN 0
  ELSE IF num.n < 0 THEN (IF length + num.n > 0 THEN length + num.n ELSE 0)
  ELSE IF num.n < length THEN num.n
  ELSE length

\* ecma_builtin_helper_string_index_normalize
ecma_builtin_helper_string_index_normalize(num, length) ==
  normalize_relative_index(num, length)

\* ecma_builtin_helper_array_index_normalize
ecma_builtin_helper_array_index_normalize(num, length) ==
  normalize_relative_index(num, length)

(* ------------------------- regular expressions ------------------------ *)

\* A pattern is a sequence of alternatives, tried in order; an alternative is
\* a sequence of capture groups, each a literal string.  <<>> never matches,
\* << <<>> >> matches the empty string everywhere.
RECURSIVE FlattenSeq(_)
FlattenSeq(ss) == IF ss = <<>> THEN <<>> ELSE Head(ss) \o FlattenSeq(Tail(ss))

IsPrefixAt(p, s, i) == i + Len(p) <= Len(s) /\ \A k \in 1..Len(p) : s[i + k] = p[k]

\* the least element of a set of numbers
Least(S) == CHOOSE k \in S : \A j \in S : k <= j

\* the text a literal stands for: the character $ of a pattern is the
\* assertion of the end of the input (written last in its alternative)
PatternText(p) == SelectSeq(p, LAMBDA c : c # LIT_CHAR_DOLLAR_SIGN)

\* the literal p matches s at offset i: its text is there and, when p
\* asserts the end of the input, the text ends s
MatchesAt(p, s, i) ==
  /\ IsPrefixAt(PatternText(p), s, i)
  /\ (PatternText(p) # p => i + Len(PatternText(p)) = Len(s))

\* the alternatives that match s at offset i
AltsAt(alts, s, i) == {k \in 1..Len(alts) : MatchesAt(FlattenSeq(alts[k]), s, i)}

\* entries of the match array: the whole match, then every group of the
\* pattern; groups of alternatives that did not take part are undefined
Captures(alts, k) ==
  <<StrV(PatternText(FlattenSeq(alts[k])))>> \o
  FlattenSeq([j \in 1..Len(alts) |->
               [g \in 1..Len(alts[j]) |->
                  IF j = k THEN StrV(PatternText(alts[j][g])) ELSE Undefined]])

\* offsets >= from at which the pattern matches s
MatchOffsets(alts, s, from) == {i \in from..Len(s) : AltsAt(alts, s, i) # {}}

\* ecma_op_object_put (regexp, "lastIndex", v, is_throw = true): a TypeError
\* when the property is not writable
PutLastIndex(re, v) ==
  IF re.writable
    THEN [completion |-> NormalCompletion(Undefined), re |-> [re EXCEPT !.lastIndex = v]]
    ELSE [completion |-> ThrowCompletion("put_lastIndex"), re |-> re]

\* exec: the result once lastIndex has been stored
ExecStored(put, value, re) ==
  IF ecma_is_completion_value_throw(put.completion)
    THEN [completion |-> ThrowCompletion("exec"), re |-> re]
    ELSE [completion |-> NormalCompletion(value), re |-> put.re]

\* exec: a global exec stores lastIndex, any other leaves it alone
ExecDone(re, useGlobal, value, last) ==
  IF useGlobal THEN ExecStored(PutLastIndex(re, last), value, re)
  ELSE [completion |-> NormalCompletion(value), re |-> re]

\* exec: the match array of a match at offset i
ExecMatched(re, useGlobal, i, caps) ==
  ExecDone(re, useGlobal, MatchObj(i, caps), i + Len(caps[1].s))

\* exec: the leftmost of the offsets that match, or null
ExecAt(re, useGlobal, s, offs) ==
  IF offs = {} THEN ExecDone(re, useGlobal, Null, 0)
  ELSE ExecMatched(re, useGlobal, Least(offs),
                   Captures(re.alts, Least(AltsAt(re.alts, s, Least(offs)))))

\* ecma_regexp_exec_helper (re, s, ignore_global): the leftmost match at or
\* after lastIndex (0 when not global or in search mode); a global exec
\* stores the end of the match in lastIndex, or 0 when there is none
ecma_regexp_exec_helper(re, s, ignore_global) ==
  ExecAt(re, re.global /\ ~ignore_global, s,
         MatchOffsets(re.alts, s, IF re.global /\ ~ignore_global THEN re.lastIndex ELSE 0))

\* ecma_op_object_get of an array index of a match array
MatchGet(match_value, index) ==
  IF index < Len(match_value.elems) THEN match_value.elems[index + 1] ELSE Undefined

(* --------------------------- replace: helpers ------------------------- *)

\* a faulty variant of replace_append_substr: the start of the range ignored
AppendSubstrFromZero(base_string, appended_string, start, end) ==
  [ok |-> start <= end /\ end <= ecma_string_get_length(appended_string),
   s |-> IF start < end
           THEN ecma_concat_ecma_strings(base_string, ecma_string_substr(appended_string, 0, end))
           ELSE base_string]

\* ecma_builtin_string_prototype_object_replace_append_substr: base followed
\* by appended[start, end); ok is FALSE when one of its two assertions fails
replace_append_substr(base_string, appended_string, start, end) ==
  IF ~(start <= end /\ end <= ecma_string_get_length(appended_string))
    THEN [ok |-> FALSE, s |-> base_string]
    ELSE [ok |-> TRUE,
          s |-> IF start < end
                  THEN ecma_concat_ecma_strings(base_string,
                                                ecma_string_substr(appended_string, start, end))
                  ELSE base_string]

\* a faulty variant of LiteralNestedScan: match_end is not counted up
LiteralNestedScanNoCount(search, input, spos, npos, match_end) ==
  [match_found |-> IsPrefixAt(SubSeq(search, spos + 1, Len(search)), input, npos),
   match_end |-> match_end]

\* the inner loop of the literal search: compares the rest of the search
\* string (from spos) with the input (from npos), counting match_end
RECURSIVE LiteralNestedScan(_, _, _, _, _)
LiteralNestedScan(search, input, spos, npos, match_end) ==
  IF spos >= Len(search) THEN [match_found |-> TRUE, match_end |-> match_end]
  ELSE IF npos >= Len(input) THEN [match_found |-> FALSE, match_end |-> match_end]
  ELSE IF search[spos + 1] # input[npos + 1] THEN [match_found |-> FALSE, match_end |-> match_end]
  ELSE LiteralNestedScan(search, input, spos + 1, npos + 1, match_end + 1)

\* the outer loop of the literal search: ipos is the input iterator,
\* match_start the counter the code keeps beside it
RECURSIVE LiteralOuterScan(_, _, _, _)
\* the outer loop after the inner loop ran at ipos
LiteralNested(search, input, ipos, match_start, nested) ==
  IF nested.match_found
    THEN [match_found |-> TRUE, match_start |-> match_start, match_end |-> nested.match_end]
    ELSE LiteralOuterScan(search, input, ipos + 1, match_start + 1)

LiteralOuterScan(search, input, ipos, match_start) ==
  IF ipos >= Len(input)
    THEN [match_found |-> FALSE, match_start |-> match_start, match_end |-> 0]
  ELSE IF input[ipos + 1] = search[1]
    THEN LiteralNested(search, input, ipos, match_start,
                       LiteralNestedScan(search, input, 1, ipos + 1, match_start + 1))
  ELSE LiteralOuterScan(search, input, ipos + 1, match_start + 1)

\* the string branch of ecma_builtin_string_prototype_object_replace_match
LiteralSearch(search, input) ==
  IF Len(search) = 0
    THEN [match_found |-> TRUE, match_start |-> 0, match_end |-> 0]
    ELSE LiteralOuterScan(search, input, 0, 0)

(* ------------------------ replace: the template ----------------------- *)

\* What a read one past the end of the template buffer yields: the
\* iterator's assertion fails (assert), or a byte that happens to follow
\* the buffer is read (ch).
OobOutcomes ==
  {[assert |-> TRUE, ch |-> LIT_CHAR_NULL]} \cup
  {[assert |-> FALSE, ch |-> c] : c \in {LIT_CHAR_NULL, LIT_CHAR_1}}

\* lit_utf8_iterator_peek_next with the iterator at offset pos
PeekNext(tpl, pos, oob) ==
  IF pos < Len(tpl) THEN [ok |-> TRUE, ch |-> tpl[pos + 1]]
  ELSE [ok |-> ~oob.assert, ch |-> oob.ch]

IsDigit19(c) == c >= LIT_CHAR_1 /\ c <= LIT_CHAR_9
IsDigit09(c) == c >= LIT_CHAR_0 /\ c <= LIT_CHAR_9

\* a faulty variant of TemplateAction: the last branch of the if-chain, which
\* clears the action of an ordinary character, is missing
TemplateActionNoReset(a, look0) ==
  IF a = LIT_CHAR_0
    THEN (IF look0.ok /\ IsDigit19(look0.ch) THEN a ELSE LIT_CHAR_NULL)
    ELSE a

\* which character after a `$` starts a substitution: the if-chain of
\* lines 1097-1117 (look0 is the character peeked after `$0`)
TemplateAction(a, look0) ==
  IF a = LIT_CHAR_DOLLAR_SIGN THEN a
  ELSE IF a = LIT_CHAR_0
    THEN (IF look0.ok /\ IsDigit19(look0.ch) THEN a ELSE LIT_CHAR_NULL)
  ELSE IF a # LIT_CHAR_AMPERSAND /\ a # LIT_CHAR_GRAVE_ACCENT
          /\ a # LIT_CHAR_SINGLE_QUOTE /\ ~IsDigit19(a)
    THEN LIT_CHAR_NULL
  ELSE a

\* lines 1179-1188: the submatch read is appended, undefined as nothing
TemplateGot(st, index, two, submatch_value) ==
  [st EXCEPT !.pos = IF two THEN st.pos + 1 ELSE st.pos,
             !.current_position = IF two THEN st.current_position + 1
                                  ELSE st.current_position,
             !.gets = st.gets + 1,
             !.refs = Append(st.refs, index),
             !.result = IF ecma_is_value_undefined(submatch_value) THEN st.result
                        ELSE ecma_concat_ecma_strings(st.result, submatch_value.s)]

\* lines 1172-1177: the read of match[index], which may throw
TemplateGet(st, index, two, match_value, failAt) ==
  IF st.gets + 1 = failAt
    THEN [st EXCEPT !.status = "throw", !.gets = st.gets + 1, !.refs = Append(st.refs, index)]
    ELSE TemplateGot(st, index, two, MatchGet(match_value, index))

\* lines 1161-1169: the index of `$n` or `$nn`; look is the character peeked
\* after the first digit.  A second digit is consumed whatever the index.
TemplateDigits(st, action, tpl, match_value, failAt, look) ==
  IF ~look.ok THEN [st EXCEPT !.status = "fatal"]
  ELSE IF IsDigit09(look.ch)
    THEN (IF st.pos >= Len(tpl) THEN [st EXCEPT !.status = "ub"]
          ELSE IF (action - LIT_CHAR_0) * 10 + (look.ch - LIT_CHAR_0) = 0
            THEN [st EXCEPT !.status = "fatal"]
          ELSE TemplateGet(st, (action - LIT_CHAR_0) * 10 + (look.ch - LIT_CHAR_0), TRUE,
                           match_value, failAt))
  ELSE IF action - LIT_CHAR_0 = 0 THEN [st EXCEPT !.status = "fatal"]
  ELSE TemplateGet(st, action - LIT_CHAR_0, FALSE, match_value, failAt)

\* the submatch branch (lines 1152-1197): st is the scanner after the
\* pending template text was appended and the action character consumed
TemplateSubmatch(st, action, ctx, match_value, oob, failAt) ==
  IF IsDigit09(action)
    THEN TemplateDigits([st EXCEPT !.peeks = Append(st.peeks, st.pos)], action,
                        ctx.replace_string, match_value, failAt,
                        PeekNext(ctx.replace_string, st.pos, oob))
    ELSE TemplateGet(st, 0, FALSE, match_value, failAt)

\* a piece of the input was appended (lines 1134-1151)
TemplateInput(st, app) ==
  [st EXCEPT !.result = app.s, !.status = IF app.ok THEN "run" ELSE "fatal"]

\* lines 1130-1197: what the action character substitutes
TemplateSubst(st, action, ctx, match_value, oob, failAt) ==
  IF action = LIT_CHAR_DOLLAR_SIGN
    THEN [st EXCEPT !.current_position = st.current_position - 1]
  ELSE IF action = LIT_CHAR_GRAVE_ACCENT
    THEN TemplateInput(st, replace_append_substr(st.result, ctx.input_string,
                                                 0, ctx.match_start))
  ELSE IF action = LIT_CHAR_SINGLE_QUOTE
    THEN TemplateInput(st, replace_append_substr(st.result, ctx.input_string,
                                                 ctx.match_end, ctx.input_length))
  ELSE TemplateSubmatch(st, action, ctx, match_value, oob, failAt)

\* a faulty variant of TemplateNext: the next segment starts one too early
TemplateNextEarly(acted) ==
  IF acted.status # "run" THEN acted
  ELSE [acted EXCEPT !.current_position = acted.current_position + 2,
                     !.previous_start = acted.current_position + 1]

\* lines 1199-1203: the positions after a substitution
TemplateNext(acted) ==
  IF acted.status # "run" THEN acted
  ELSE [acted EXCEPT !.current_position = acted.current_position + 2,
                     !.previous_start = acted.current_position + 2]

\* lines 1121-1128: the template text before the `$` is appended and the
\* action character consumed
TemplateAppend(st, action, cur1, app, ctx, match_value, oob, failAt) ==
  IF ~app.ok
    THEN [st EXCEPT !.status = "fatal",
                    !.appends = Append(st.appends, <<st.previous_start, cur1>>)]
  ELSE TemplateNext(TemplateSubst([st EXCEPT !.pos = st.pos + 2,
                                             !.current_position = cur1,
                                             !.result = app.s,
                                             !.appends = Append(st.appends,
                                                                <<st.previous_start, cur1>>)],
                                  action, ctx, match_value, oob, failAt))

\* lines 1121-1203: nothing to substitute, or a substitution
TemplateActed(st, action, cur1, ctx, match_value, oob, failAt) ==
  IF action = LIT_CHAR_NULL
    THEN [st EXCEPT !.pos = st.pos + 1, !.current_position = cur1 + 1]
    ELSE TemplateAppend(st, action, cur1,
                        replace_append_substr(st.result, ctx.replace_string,
                                              st.previous_start, cur1),
                        ctx, match_value, oob, failAt)

\* the lookaheads of lines 1095 and 1104: the iterator stands after the `$`
\* and, when a 0 follows, after the 0; peeks keeps the offsets looked at
TemplatePeeked(st, a) ==
  [st EXCEPT !.peeks = IF a = LIT_CHAR_0 THEN st.peeks \o <<st.pos + 1, st.pos + 2>>
                       ELSE Append(st.peeks, st.pos + 1)]

\* lines 1093-1118: a `$` that is not the last character; a is the character
\* after it, look0 the one after that
TemplateDollar(st, a, look0, ctx, match_value, oob, failAt) ==
  IF a = LIT_CHAR_0 /\ ~look0.ok THEN [TemplatePeeked(st, a) EXCEPT !.status = "fatal"]
  ELSE TemplateActed(TemplatePeeked(st, a), TemplateAction(a, look0),
                     IF a = LIT_CHAR_DOLLAR_SIGN THEN st.current_position + 1
                     ELSE st.current_position,
                     ctx, match_value, oob, failAt)

\* one turn of the while loop of lines 1087-1204
TemplateIter(st, ctx, match_value, oob, failAt) ==
  IF ctx.replace_string[st.pos + 1] = LIT_CHAR_DOLLAR_SIGN
     /\ st.pos + 1 < Len(ctx.replace_string)
    THEN TemplateDollar(st, ctx.replace_string[st.pos + 2],
                        PeekNext(ctx.replace_string, st.pos + 2, oob),
                        ctx, match_value, oob, failAt)
    ELSE [st EXCEPT !.pos = st.pos + 1, !.current_position = st.current_position + 1]

\* the while loop of lines 1087-1204
RECURSIVE TemplateRun(_, _, _, _, _)
TemplateRun(st, ctx, match_value, oob, failAt) ==
  IF st.status # "run" \/ st.pos >= Len(ctx.replace_string) THEN st
  ELSE TemplateRun(TemplateIter(st, ctx, match_value, oob, failAt), ctx, match_value, oob, failAt)

\* lines 1206-1215: the rest of the template is appended and the string
\* built is handed to the completion value
TemplateLast(fin, last) ==
  IF ~last.ok
    THEN [status |-> "fatal", s |-> fin.result, refs |-> fin.refs, held |-> fin.held,
          peeks |-> fin.peeks,
          appends |-> Append(fin.appends, <<fin.previous_start, fin.current_position>>)]
  ELSE [status |-> "normal", s |-> last.s, refs |-> fin.refs, held |-> fin.held - 1,
        peeks |-> fin.peeks,
        appends |-> Append(fin.appends, <<fin.previous_start, fin.current_position>>)]

\* lines 1204-1216: the loop has ended; when a completion is already stored
\* the string built so far is neither returned nor dereferenced
TemplateEnd(fin, tpl) ==
  IF fin.status # "run"
    THEN [status |-> fin.status, s |-> fin.result, refs |-> fin.refs, held |-> fin.held,
          peeks |-> fin.peeks, appends |-> fin.appends]
  ELSE TemplateLast(fin, replace_append_substr(fin.result, tpl,
                                               fin.previous_start, fin.current_position))

\* the scanner at the start of the template (lines 1078-1085); held counts
\* the strings result_string_p refers to: each append releases the string it
\* replaces, so it stays one; peeks keeps the iterator offsets at which the
\* next character was looked at, appends the bounds of the template segments
\* appended
TemplateStart ==
  [pos |-> 0, previous_start |-> 0, current_position |-> 0, result |-> <<>>,
   status |-> "run", gets |-> 0, refs |-> <<>>, held |-> 1, peeks |-> <<>>, appends |-> <<>>]

\* the string branch of ecma_builtin_string_prototype_object_replace_get_string
\* (lines 1076-1216): status is "normal" (with the text), "throw", "fatal" or "ub"
GetStringTemplate(ctx, match_value, oob, failAt) ==
  TemplateEnd(TemplateRun(TemplateStart, ctx, match_value, oob, failAt), ctx.replace_string)

(* ------------------------------- state -------------------------------- *)

VARIABLES
  pc,             \* where the running routine stands
  this_arg,       \* the this value of the call
  search_value,   \* first argument (replace), the argument (match)
  replace_value,  \* second argument of replace
  regexp,         \* the regular expression object: alts, global, lastIndex, writable
  context,        \* ecma_builtin_replace_search_ctx_t of the replace call
  match_value,    \* the match the loop is working on
  previous_start, \* replace_loop: end of the previous match
  result_string,  \* replace_loop: the string built so far
  ret_value,      \* the completion value of the routine
  cb_writes,      \* lastIndex writes made by replacement functions
  previous_last_index, \* match: lastIndex after the previous iteration
  n,              \* match: number of matches stored
  new_array,      \* match: the elements of the array being built
  frames,         \* the calls whose locals are kept: suspended, or made before
  log             \* the fallible and observable steps taken, in order

vars == <<pc, this_arg, search_value, replace_value, regexp, context, match_value,
          previous_start, result_string, ret_value, cb_writes,
          previous_last_index, n, new_array, frames, log>>

args == <<this_arg, search_value, replace_value>>

\* the locals of match, which replace leaves alone
match_vars == <<previous_last_index, n, new_array>>

\* the locals of replace and its suspended calls, which match leaves alone
replace_vars == <<replace_value, context, match_value, previous_start, result_string, cb_writes,
                  frames>>

\* one logged step: its name, the value it carries, whether it threw
Ev(e, v, c) == [e |-> e, v |-> v, thrown |-> ecma_is_completion_value_throw(c)]

NoRegExp == [alts |-> <<>>, global |-> FALSE, lastIndex |-> 0, writable |-> TRUE]

NoContext ==
  [is_regexp |-> FALSE, is_global |-> FALSE, is_replace_callable |-> FALSE,
   input_string |-> <<>>, input_length |-> 0, search_string |-> <<>>,
   match_start |-> 0, match_end |-> 0, replace_string |-> <<>>]

\* the routine returns completion c
Return(c, newlog) ==
  /\ pc' = "done"
  /\ ret_value' = c
  /\ log' = newlog

\* a JERRY_ASSERT failed ("fatal"), or the scan left the template buffer ("ub")
Stop(where, newlog) ==
  /\ pc' = where
  /\ log' = newlog
  /\ UNCHANGED ret_value

(* ------------------------------ replace ------------------------------- *)

\* ecma_builtin_string_prototype_object_replace_main (lines 1338-1381): a
\* callable replacement is kept, any other value is coerced to the template
ReplaceMain(ctx, re, to_string_replace, newlog) ==
  IF ~ctx.is_replace_callable /\ ecma_is_completion_value_throw(to_string_replace)
    THEN /\ Return(to_string_replace, newlog)
         /\ regexp' = re
         /\ UNCHANGED <<context, previous_start, result_string>>
    ELSE /\ pc' = "loop"
         /\ regexp' = re
         /\ context' = [ctx EXCEPT !.replace_string =
                          IF ctx.is_replace_callable THEN <<>> ELSE to_string_replace.value.s]
         /\ previous_start' = 0
         /\ result_string' = <<>>
         /\ log' = newlog
         /\ UNCHANGED ret_value

\* lines 1432-1493: the context is filled in and replace_main called
ReplaceContext(input, isRe, re, search, newlog) ==
  ReplaceMain([is_regexp |-> isRe,
               is_global |-> isRe /\ re.global,
               is_replace_callable |-> ecma_op_is_callable(replace_value),
               input_string |-> input,
               input_length |-> ecma_string_get_length(input),
               search_string |-> search,
               match_start |-> 0,
               match_end |-> 0,
               replace_string |-> <<>>],
              re,
              ecma_op_to_string(replace_value, "to_string_replace"),
              IF ecma_op_is_callable(replace_value) THEN newlog
              ELSE Append(newlog, Ev("to_string_replace", replace_value,
                                     ecma_op_to_string(replace_value, "to_string_replace"))))

\* lines 1452-1473: a global regexp has its lastIndex set to 0
ReplaceGlobal(input, put, newlog) ==
  IF ecma_is_completion_value_throw(put.completion)
    THEN Return(put.completion, newlog)
         /\ UNCHANGED <<regexp, context, previous_start, result_string>>
    ELSE ReplaceContext(input, TRUE, put.re, <<>>, newlog)

\* lines 1480-1492: the search value is coerced to the search string
ReplaceString(input, to_string_search, newlog) ==
  IF ecma_is_completion_value_throw(to_string_search)
    THEN Return(to_string_search, newlog)
         /\ UNCHANGED <<regexp, context, previous_start, result_string>>
    ELSE ReplaceContext(input, FALSE, regexp, to_string_search.value.s, newlog)

\* a faulty variant of ReplaceSearch: lastIndex is set to 0 whether the
\* regexp is global or not
ReplaceSearchPutsAlways(input, newlog) ==
  IF IsRegExpObject(search_value)
    THEN ReplaceGlobal(input, PutLastIndex(regexp, 0),
                       newlog \o <<Ev("get_global", Undefined, EmptyCompletion),
                                   Ev("put_lastIndex", NumV(0),
                                      PutLastIndex(regexp, 0).completion)>>)
    ELSE ReplaceString(input, ecma_op_to_string(search_value, "to_string_search"),
                       Append(newlog, Ev("to_string_search", search_value,
                                         ecma_op_to_string(search_value, "to_string_search"))))

\* lines 1434-1493: a regexp object or a search string
ReplaceSearch(input, newlog) ==
  IF IsRegExpObject(search_value)
    THEN (IF regexp.global
            THEN ReplaceGlobal(input, PutLastIndex(regexp, 0),
                               newlog \o <<Ev("get_global", Undefined, EmptyCompletion),
                                           Ev("put_lastIndex", NumV(0),
                                              PutLastIndex(regexp, 0).completion)>>)
            ELSE ReplaceContext(input, TRUE, regexp, <<>>,
                                Append(newlog, Ev("get_global", Undefined, EmptyCompletion))))
    ELSE ReplaceString(input, ecma_op_to_string(search_value, "to_string_search"),
                       Append(newlog, Ev("to_string_search", search_value,
                                         ecma_op_to_string(search_value, "to_string_search"))))

\* lines 1427-1430: ToString of this
ReplaceThis(to_string_value, newlog) ==
  IF ecma_is_completion_value_throw(to_string_value)
    THEN Return(to_string_value, newlog)
         /\ UNCHANGED <<regexp, context, previous_start, result_string>>
    ELSE ReplaceSearch(to_string_value.value.s, newlog)

\* a faulty variant of ReplaceCoercible: the outcome of the check is ignored
ReplaceCoercibleIgnored(coercible, newlog) ==
  ReplaceThis(ecma_op_to_string(this_arg, "to_string_this"),
              Append(newlog, Ev("to_string_this", this_arg,
                                ecma_op_to_string(this_arg, "to_string_this"))))

\* lines 1422-1425: this must be coercible
ReplaceCoercible(coercible, newlog) ==
  IF ecma_is_completion_value_throw(coercible)
    THEN Return(coercible, newlog)
         /\ UNCHANGED <<regexp, context, previous_start, result_string>>
    ELSE ReplaceThis(ecma_op_to_string(this_arg, "to_string_this"),
                     Append(newlog, Ev("to_string_this", this_arg,
                                       ecma_op_to_string(this_arg, "to_string_this"))))

\* ecma_builtin_string_prototype_object_replace (lines 1415-1499) down to the
\* call of the loop in ecma_builtin_string_prototype_object_replace_main
Replace ==
  /\ pc = "call"
  /\ ReplaceCoercible(ecma_op_check_object_coercible(this_arg),
                      Append(log, Ev("check_coercible", this_arg,
                                     ecma_op_check_object_coercible(this_arg))))
  /\ UNCHANGED <<args, match_value, cb_writes, match_vars, frames>>

\* replace_match, regexp branch (lines 826-879): the bounds of the match
ReplaceMatchRegExp(ex) ==
  IF ecma_is_completion_value_throw(ex.completion)
    THEN [completion |-> ex.completion, re |-> ex.re, match_start |-> 0, match_end |-> 0]
  ELSE IF ecma_is_value_null(ex.completion.value)
    THEN [completion |-> ex.completion, re |-> ex.re, match_start |-> 0, match_end |-> 0]
  ELSE [completion |-> ex.completion, re |-> ex.re,
        match_start |-> ex.completion.value.index,
        match_end |-> ex.completion.value.index
                      + ecma_string_get_length(MatchGet(ex.completion.value, 0).s)]

\* a faulty variant of ReplaceMatchString: a failed search leaves the
\* position the scan reached in the bounds
ReplaceMatchStringStale(found, search, re) ==
  [completion |-> IF found.match_found THEN NormalCompletion(ArrayObj(<<StrV(search)>>))
                  ELSE NormalCompletion(Null),
   re |-> re, match_start |-> found.match_start, match_end |-> found.match_end]

\* replace_match, string branch (lines 880-981): the bounds of the occurrence
ReplaceMatchString(found, search, re) ==
  IF found.match_found
    THEN [completion |-> NormalCompletion(ArrayObj(<<StrV(search)>>)), re |-> re,
          match_start |-> found.match_start, match_end |-> found.match_end]
    ELSE [completion |-> NormalCompletion(Null), re |-> re,
          match_start |-> 0, match_end |-> 0]

\* ecma_builtin_string_prototype_object_replace_match (lines 817-983): the
\* completion, the regexp after the exec and the match bounds
replace_match(ctx, re) ==
  IF ctx.is_regexp
    THEN ReplaceMatchRegExp(ecma_regexp_exec_helper(re, ctx.input_string, FALSE))
    ELSE ReplaceMatchString(LiteralSearch(ctx.search_string, ctx.input_string),
                            ctx.search_string, re)

\* the end of ecma_builtin_string_prototype_object_replace_loop
\* (lines 1302-1326): the tail of the input is appended and returned
ReplaceTail(tail, newlog) ==
  IF tail.ok
    THEN Return(NormalCompletion(StrV(tail.s)), newlog)
    ELSE Stop("fatal", newlog)

\* a faulty variant of ReplaceFinish: the tail of the input is dropped
ReplaceFinishNoTail(built, ctx, prev, newlog) ==
  ReplaceTail([ok |-> TRUE, s |-> built], newlog)

ReplaceFinish(built, ctx, prev, newlog) ==
  ReplaceTail(replace_append_substr(built, ctx.input_string, prev, ctx.input_length), newlog)

\* lines 1245-1251: the input between the previous match and this one
ReplacePrefix(found, prefix, newlog) ==
  IF ~prefix.ok
    THEN Stop("fatal", newlog) /\ UNCHANGED <<match_value, result_string>>
    ELSE /\ pc' = "get_string"
         /\ match_value' = found.completion.value
         /\ result_string' = prefix.s
         /\ log' = newlog
         /\ UNCHANGED ret_value

\* lines 1238-1251 and 1302-1315: what the loop does with the find step
ReplaceFound(found, newlog) ==
  /\ context' = [context EXCEPT !.match_start = found.match_start,
                                !.match_end = found.match_end]
  /\ regexp' = found.re
  /\ IF ecma_is_completion_value_throw(found.completion)
       THEN Return(found.completion, newlog) /\ UNCHANGED <<match_value, result_string>>
     ELSE IF ecma_is_value_null(found.completion.value)
       THEN ReplaceFinish(result_string, context, previous_start, newlog)
            /\ UNCHANGED <<match_value, result_string>>
     ELSE ReplacePrefix(found,
                        replace_append_substr(result_string, context.input_string,
                                              previous_start, found.match_start),
                        newlog)

\* the log entry of a find step
FindEvent(found, from) ==
  [e |-> IF context.is_regexp THEN "exec" ELSE "search",
   v |-> IF ecma_is_completion_value_throw(found.completion) THEN Undefined
         ELSE found.completion.value,
   thrown |-> ecma_is_completion_value_throw(found.completion),
   from |-> from,
   to |-> found.re.lastIndex,
   start |-> found.match_start,
   end |-> found.match_end]

ReplaceFind(found) == ReplaceFound(found, Append(log, FindEvent(found, regexp.lastIndex)))

\* one find step of the loop (lines 1238-1251): no match ends the replace,
\* a match appends the input between the previous match and this one
ReplaceLoopMatch ==
  /\ pc = "loop"
  /\ ReplaceFind(replace_match(context, regexp))
  /\ UNCHANGED <<args, previous_start, cb_writes, match_vars, frames>>

\* lines 1302-1320: the loop goes round again or finishes
ReplaceContinue(appended, is_global, re, newlog) ==
  /\ context' = [context EXCEPT !.is_global = is_global]
  /\ IF ~is_global
       THEN ReplaceFinish(appended, context, context.match_end, newlog) /\ UNCHANGED regexp
       ELSE /\ pc' = "loop"
            /\ regexp' = re
            /\ log' = newlog
            /\ UNCHANGED ret_value

\* a faulty variant of ReplaceBump: lastIndex is left where it was
ReplaceBumpNoPut(appended, put, newlog) ==
  ReplaceContinue(appended, TRUE, regexp, newlog)

\* lines 1280-1298: lastIndex is forced past a zero-width match
ReplaceBump(appended, put, newlog) ==
  IF ecma_is_completion_value_throw(put.completion)
    THEN Return(put.completion, newlog) /\ UNCHANGED <<regexp, context>>
    ELSE ReplaceContinue(appended, TRUE, put.re, newlog)

\* a faulty variant of ReplaceAppended: a zero-width match at the end of the
\* input does not stop the loop
ReplaceAppendedNoStop(appended, newlog) ==
  /\ previous_start' = context.match_end
  /\ result_string' = appended
  /\ IF context.is_global /\ context.match_start = context.match_end
       THEN ReplaceBump(appended, PutLastIndex(regexp, context.match_end + 1),
                        Append(newlog,
                               Ev("put_lastIndex", NumV(context.match_end + 1),
                                  PutLastIndex(regexp, context.match_end + 1).completion)))
       ELSE ReplaceContinue(appended, context.is_global, regexp, newlog)

\* the loop after the replacement text is known (lines 1257-1320): the text
\* is appended, a zero-width global match forces lastIndex forward or ends
\* the loop, and the loop either goes round again or finishes
ReplaceAppended(appended, newlog) ==
  /\ previous_start' = context.match_end
  /\ result_string' = appended
  /\ IF context.is_global /\ context.match_start = context.match_end
       THEN (IF context.match_end = context.input_length
               THEN ReplaceContinue(appended, FALSE, regexp, newlog)
               ELSE ReplaceBump(appended, PutLastIndex(regexp, context.match_end + 1),
                                Append(newlog,
                                       Ev("put_lastIndex", NumV(context.match_end + 1),
                                          PutLastIndex(regexp, context.match_end + 1).completion))))
       ELSE ReplaceContinue(appended, context.is_global, regexp, newlog)

\* a faulty variant of ReplaceAdvance: the text is put before the string built
ReplaceAdvancePrepends(text, baselog) ==
  ReplaceAppended(ecma_concat_ecma_strings(text, result_string),
                  Append(baselog, [e |-> "subst", v |-> StrV(text), thrown |-> FALSE,
                                   start |-> context.match_start, end |-> context.match_end,
                                   prev |-> previous_start]))

\* lines 1257-1267: the replacement text is appended to the string built
ReplaceAdvance(text, baselog) ==
  ReplaceAppended(ecma_concat_ecma_strings(result_string, text),
                  Append(baselog, [e |-> "subst", v |-> StrV(text), thrown |-> FALSE,
                                   start |-> context.match_start, end |-> context.match_end,
                                   prev |-> previous_start]))

\* which submatch read of a template expansion throws (0: none)
FailChoices == {0, 1}

\* the loop turn once the template is expanded
ReplaceExpanded(gs, newlog) ==
  IF gs.status = "normal"
    THEN ReplaceAdvance(gs.s, newlog)
  ELSE IF gs.status = "throw"
    THEN Return(ThrowCompletion("get_submatch"), newlog)
         /\ previous_start' = context.match_end
         /\ UNCHANGED <<regexp, context, result_string>>
  ELSE Stop(gs.status, newlog)
       /\ UNCHANGED <<regexp, context, previous_start, result_string>>

ReplaceTemplate(gs) ==
  ReplaceExpanded(gs, Append(log, [e |-> "template", v |-> StrV(gs.s),
                                   thrown |-> gs.status = "throw",
                                   status |-> gs.status, refs |-> gs.refs,
                                   held |-> gs.held, peeks |-> gs.peeks,
                                   appends |-> gs.appends]))

\* the string branch of replace_get_string (lines 1076-1216) and the rest
\* of the loop turn
ReplaceGetStringTemplate ==
  /\ pc = "get_string"
  /\ ~context.is_replace_callable
  /\ \E oob \in OobOutcomes, failAt \in FailChoices :
       ReplaceTemplate(GetStringTemplate(context, match_value, oob, failAt))
  /\ UNCHANGED <<args, match_value, cb_writes, match_vars, frames>>

\* a faulty variant of CallArguments: the index and the input swapped
CallArgumentsSwapped(match, ctx) ==
  match.elems \o <<StrV(ctx.input_string), NumV(ctx.match_start)>>

\* lines 1015-1045: the arguments of the call are the entries of the match,
\* then the match start, then the input
CallArguments(match, ctx) ==
  match.elems \o <<NumV(ctx.match_start), StrV(ctx.input_string)>>

\* the callable branch of replace_get_string up to the call (lines 998-1052)
ReplaceCallFunction ==
  /\ pc = "get_string"
  /\ context.is_replace_callable
  /\ pc' = "callback"
  /\ log' = Append(log, [e |-> "call", v |-> Undefined, thrown |-> FALSE,
                         args |-> CallArguments(match_value, context)])
  /\ UNCHANGED <<args, regexp, context, match_value, previous_start, result_string,
                 ret_value, cb_writes, match_vars, frames>>

\* what a replacement function may return
CallbackReturns == {StrV(<<LIT_CHAR_LOWERCASE_X>>), NumV(7), ThrowingObj}

\* lines 1054-1058: the value returned is coerced to the replacement text
ReplaceReturned(to_string_value, newlog) ==
  IF ecma_is_completion_value_throw(to_string_value)
    THEN Return(to_string_value, newlog)
         /\ previous_start' = context.match_end
         /\ UNCHANGED <<regexp, context, result_string>>
    ELSE ReplaceAdvance(to_string_value.value.s, newlog)

\* the replacement function returns r: lines 1054-1075, then the rest of the
\* loop turn
CallbackReturn ==
  /\ pc = "callback"
  /\ \E r \in CallbackReturns :
       ReplaceReturned(ecma_op_to_string(r, "to_string_result"),
                       Append(log, Ev("return", r, ecma_op_to_string(r, "to_string_result"))))
  /\ UNCHANGED <<args, match_value, cb_writes, match_vars, frames>>

\* the replacement function throws (ecma_op_function_call, line 1047)
CallbackThrow ==
  /\ pc = "callback"
  /\ Return(ThrowCompletion("call"),
            Append(log, Ev("throw", Undefined, ThrowCompletion("call"))))
  /\ previous_start' = context.match_end
  /\ UNCHANGED <<args, regexp, context, match_value, result_string, cb_writes, match_vars, frames>>

\* user code: the replacement function assigns the regexp's lastIndex
CallbackWriteLastIndex ==
  /\ pc = "callback"
  /\ context.is_regexp
  /\ regexp.writable
  /\ cb_writes < MaxCbWrites
  /\ \E w \in 0..(context.input_length + 1) :
       /\ regexp' = [regexp EXCEPT !.lastIndex = w]
       /\ log' = Append(log, Ev("cb_write", NumV(w), EmptyCompletion))
  /\ cb_writes' = cb_writes + 1
  /\ UNCHANGED <<args, pc, context, match_value, previous_start, result_string, ret_value,
                 match_vars, frames>>

(* ------------------------------- inputs ------------------------------- *)

A == LIT_CHAR_LOWERCASE_A
B == LIT_CHAR_LOWERCASE_B

Subjects == StringsUpTo({A, B}, MaxLen)

\* the patterns of the regular expressions tried
PatEmpty == << <<>> >>
PatA == << << <<A>> >> >>
PatAthenB == << << <<A>>, <<B>> >> >>
PatAorB == << << <<A>> >>, << <<B>> >> >>
PatAorEmpty == << << <<A>> >>, <<>> >>
PatBthenEmpty == << << <<B>>, <<>> >> >>

Patterns == {PatEmpty, PatA, PatAthenB, PatAorB, PatAorEmpty, PatBthenEmpty}

RegExps ==
  {[alts |-> p, global |-> g, lastIndex |-> li, writable |-> w] :
     p \in Patterns, g \in BOOLEAN, li \in {0, 1}, w \in BOOLEAN}

\* the replacement templates of the replace specification
Templates ==
  { <<>>, <<LIT_CHAR_LOWERCASE_X>>, <<LIT_CHAR_DOLLAR_SIGN, LIT_CHAR_AMPERSAND>>,
    <<LIT_CHAR_DOLLAR_SIGN, LIT_CHAR_1, LIT_CHAR_LOWERCASE_X>> }

InitWith(this, search, replace, re) ==
  /\ pc = "call"
  /\ this_arg = this
  /\ search_value = search
  /\ replace_value = replace
  /\ regexp = re
  /\ context = NoContext
  /\ match_value = Null
  /\ previous_start = 0
  /\ result_string = <<>>
  /\ ret_value = EmptyCompletion
  /\ cb_writes = 0
  /\ frames = <<>>
  /\ previous_last_index = 0
  /\ n = 0
  /\ new_array = <<>>
  /\ log = <<>>

Init ==
  \E this \in {StrV(s) : s \in Subjects} \cup {Undefined, ThrowingObj},
     replace \in {StrV(tp) : tp \in Templates} \cup {FuncObj, ThrowingObj} :
       \/ \E lit \in {StrV(s) : s \in Subjects} \cup {ThrowingObj} :
            InitWith(this, lit, replace, NoRegExp)
       \/ \E re \in RegExps :
            /\ (re.writable \/ re.global)
            /\ InitWith(this, RegExpObj, replace, re)

Next ==
  \/ Replace
  \/ ReplaceLoopMatch
  \/ ReplaceGetStringTemplate
  \/ ReplaceCallFunction
  \/ CallbackReturn
  \/ CallbackThrow
  \/ CallbackWriteLastIndex

Spec == Init /\ [][Next]_vars

(* ------------- replace called from a replacement function ------------- *)

\* the locals of a replace call suspended in its replacement function: the
\* arguments, the context (line 1432), the match, the cursor and the string
\* built (lines 1232-1235), and the steps it has taken
Frame(newlog) ==
  [this_arg |-> this_arg, search_value |-> search_value, replace_value |-> replace_value,
   context |-> context, match_value |-> match_value, previous_start |-> previous_start,
   result_string |-> result_string, ret_value |-> ret_value, log |-> newlog]

\* what the calling replace holds at that moment
Held == [context |-> context, previous_start |-> previous_start,
         result_string |-> result_string]

\* a faulty variant of NestedLocals: one context shared by every call
NestedLocalsShared(frame, inner) ==
  [context |-> inner.context, previous_start |-> inner.previous_start,
   result_string |-> inner.result_string]

\* the context of line 1432 and the cursor and string of lines 1232-1235 are
\* locals of their call: the suspended call finds those of its own frame
NestedLocals(frame, inner) ==
  [context |-> frame.context, previous_start |-> frame.previous_start,
   result_string |-> frame.result_string]

\* the replacements the function passes to the replace it calls: itself, or
\* a template
NestedReplacements == {replace_value, StrV(<<LIT_CHAR_LOWERCASE_X>>)}

\* user code: the first thing the replacement function of the outermost
\* call does is to call replace on the input with the same regexp object; the
\* new call has locals of its own
CallbackReplace ==
  /\ pc = "callback"
  /\ log[Len(log)].e = "call"
  /\ context.is_regexp
  /\ frames = <<>>
  /\ \E r \in NestedReplacements :
       /\ replace_value' = r
       /\ frames' = Append(frames,
                           Frame(Append(log, [e |-> "enter", v |-> r, thrown |-> FALSE,
                                              held |-> Held])))
  /\ pc' = "call"
  /\ this_arg' = StrV(context.input_string)
  /\ context' = NoContext
  /\ match_value' = Null
  /\ previous_start' = 0
  /\ result_string' = <<>>
  /\ ret_value' = EmptyCompletion
  /\ log' = <<>>
  /\ UNCHANGED <<search_value, regexp, cb_writes, match_vars>>

\* the suspended call goes on with what locals says it holds
NestedResume(frame, locals, newlog) ==
  /\ pc' = "callback"
  /\ this_arg' = frame.this_arg
  /\ search_value' = frame.search_value
  /\ replace_value' = frame.replace_value
  /\ context' = locals.context
  /\ match_value' = frame.match_value
  /\ previous_start' = locals.previous_start
  /\ result_string' = locals.result_string
  /\ ret_value' = frame.ret_value
  /\ log' = newlog

\* the replace called by the replacement function has returned: the function
\* runs on in the call that was suspended
NestedReturn ==
  /\ pc = "done"
  /\ frames # <<>>
  /\ NestedResume(frames[Len(frames)], NestedLocals(frames[Len(frames)], Held),
                  Append(frames[Len(frames)].log,
                         [e |-> "leave", v |-> ret_value.value,
                          thrown |-> ecma_is_completion_value_throw(ret_value)]))
  /\ frames' = SubSeq(frames, 1, Len(frames) - 1)
  /\ UNCHANGED <<regexp, cb_writes, match_vars>>

\* the inputs and the regular expressions of the nested calls
NestedSubjects == {<<A, A>>, <<B>>}

NestedRegExps ==
  {[alts |-> p, global |-> g, lastIndex |-> 0, writable |-> TRUE] :
     p \in {PatA, PatAorEmpty}, g \in BOOLEAN}

InitNested ==
  \E s \in NestedSubjects, re \in NestedRegExps :
    InitWith(StrV(s), RegExpObj, FuncObj, re)

NextNested ==
  \/ Next
  \/ CallbackReplace
  \/ NestedReturn

SpecNested == InitNested /\ [][NextNested]_vars

(* ------------------- replace: every short template -------------------- *)

\* the characters of the templates tried
TemplateAlphabet ==
  {LIT_CHAR_DOLLAR_SIGN, LIT_CHAR_GRAVE_ACCENT, LIT_CHAR_SINGLE_QUOTE, LIT_CHAR_AMPERSAND,
   LIT_CHAR_0, LIT_CHAR_1, LIT_CHAR_2, LIT_CHAR_LOWERCASE_A}

\* two longer templates: a$$$`$'a and $2a$1a
LongTemplates ==
  { <<LIT_CHAR_LOWERCASE_A, LIT_CHAR_DOLLAR_SIGN, LIT_CHAR_DOLLAR_SIGN,
      LIT_CHAR_DOLLAR_SIGN, LIT_CHAR_GRAVE_ACCENT,
      LIT_CHAR_DOLLAR_SIGN, LIT_CHAR_SINGLE_QUOTE, LIT_CHAR_LOWERCASE_A>>,
    <<LIT_CHAR_DOLLAR_SIGN, LIT_CHAR_2, LIT_CHAR_LOWERCASE_A,
      LIT_CHAR_DOLLAR_SIGN, LIT_CHAR_1, LIT_CHAR_LOWERCASE_A>> }

AllTemplates == StringsUpTo(TemplateAlphabet, MaxTplLen) \cup LongTemplates

\* the subject the templates are expanded against: "bab"
TemplateSubject == <<B, A, B>>

\* (a), (a)|(b) with and without the global flag, (a)(b)
TemplateRegExps ==
  {[alts |-> p, global |-> FALSE, lastIndex |-> 0, writable |-> TRUE] :
     p \in {PatA, PatAorB, PatAthenB}}
  \cup {[alts |-> PatAorB, global |-> TRUE, lastIndex |-> 0, writable |-> TRUE]}

InitTemplate ==
  \E tpl \in AllTemplates :
    \/ InitWith(StrV(TemplateSubject), StrV(<<A>>), StrV(tpl), NoRegExp)
    \/ \E re \in TemplateRegExps :
         InitWith(StrV(TemplateSubject), RegExpObj, StrV(tpl), re)

NextTemplate ==
  \/ Replace
  \/ ReplaceLoopMatch
  \/ ReplaceGetStringTemplate

SpecTemplate == InitTemplate /\ [][NextTemplate]_vars

(* -------------------------------- match -------------------------------- *)

\* ecma_builtin_regexp_dispatch_construct of an argument that is no regexp:
\* undefined makes the empty pattern, the throwing object makes it throw
RegExpConstruct(arg) ==
  IF ecma_is_value_undefined(arg)
    THEN [completion |-> NormalCompletion(RegExpObj),
          re |-> [alts |-> PatEmpty, global |-> FALSE, lastIndex |-> 0, writable |-> TRUE]]
    ELSE [completion |-> ThrowCompletion("construct"), re |-> NoRegExp]

\* the log entry of an exec of match: lastIndex before the exec and at the
\* end of the loop turn
ExecEvent(ex, from, to) ==
  [e |-> "exec",
   v |-> IF ecma_is_completion_value_throw(ex.completion) THEN Undefined
         ELSE ex.completion.value,
   thrown |-> ecma_is_completion_value_throw(ex.completion),
   from |-> from,
   to |-> to]

\* lines 582-601: lastIndex is set to 0 and the loop's locals initialised
MatchGlobal(put, newlog) ==
  IF ecma_is_completion_value_throw(put.completion)
    THEN Return(put.completion, newlog) /\ regexp' = put.re /\ UNCHANGED match_vars
    ELSE /\ pc' = "match_loop"
         /\ regexp' = put.re
         /\ previous_last_index' = 0
         /\ n' = 0
         /\ new_array' = <<>>
         /\ log' = newlog
         /\ UNCHANGED ret_value

\* a faulty variant of MatchOnce: the match is returned as the array of a
\* global match, and lastIndex is set to 0
MatchOnceAsGlobal(ex, from, newlog) ==
  /\ Return(IF ecma_is_completion_value_throw(ex.completion)
               \/ ecma_is_value_null(ex.completion.value)
              THEN ex.completion
              ELSE NormalCompletion(ArrayObj(<<MatchGet(ex.completion.value, 0)>>)),
            Append(newlog, ExecEvent(ex, from, 0)))
  /\ regexp' = [ex.re EXCEPT !.lastIndex = 0]
  /\ UNCHANGED match_vars

\* line 570: a regexp that is not global is executed once
MatchOnce(ex, from, newlog) ==
  /\ Return(ex.completion, Append(newlog, ExecEvent(ex, from, ex.re.lastIndex)))
  /\ regexp' = ex.re
  /\ UNCHANGED match_vars

\* lines 554-601: the global flag is read
MatchRegExp(input, re, newlog) ==
  IF re.global
    THEN MatchGlobal(PutLastIndex(re, 0),
                     newlog \o <<Ev("get_global", Undefined, EmptyCompletion),
                                 Ev("put_lastIndex", NumV(0), PutLastIndex(re, 0).completion)>>)
    ELSE MatchOnce(ecma_regexp_exec_helper(re, input, FALSE), re.lastIndex,
                   Append(newlog, Ev("get_global", Undefined, EmptyCompletion)))

\* lines 543-552: a regexp is constructed from the argument
MatchConstructed(input, made, newlog) ==
  IF ecma_is_completion_value_throw(made.completion)
    THEN Return(made.completion, newlog) /\ UNCHANGED <<regexp, match_vars>>
    ELSE MatchRegExp(input, made.re, newlog)

\* lines 534-552: the argument is a regexp object or a regexp is made of it
MatchArg(input, newlog) ==
  IF IsRegExpObject(search_value)
    THEN MatchRegExp(input, regexp, newlog)
    ELSE MatchConstructed(input, RegExpConstruct(search_value),
                          Append(newlog, Ev("construct", search_value,
                                            RegExpConstruct(search_value).completion)))

\* lines 529-532: ToString of this
MatchThis(to_string_value, newlog) ==
  IF ecma_is_completion_value_throw(to_string_value)
    THEN Return(to_string_value, newlog) /\ UNCHANGED <<regexp, match_vars>>
    ELSE MatchArg(to_string_value.value.s, newlog)

\* lines 524-527: this must be coercible
MatchCoercible(coercible, newlog) ==
  IF ecma_is_completion_value_throw(coercible)
    THEN Return(coercible, newlog) /\ UNCHANGED <<regexp, match_vars>>
    ELSE MatchThis(ecma_op_to_string(this_arg, "to_string_this"),
                   Append(newlog, Ev("to_string_this", this_arg,
                                     ecma_op_to_string(this_arg, "to_string_this"))))

\* ecma_builtin_string_prototype_object_match (lines 518-742) down to the
\* loop of a global regexp
Match ==
  /\ pc = "match_call"
  /\ MatchCoercible(ecma_op_check_object_coercible(this_arg),
                    Append(log, Ev("check_coercible", this_arg,
                                   ecma_op_check_object_coercible(this_arg))))
  /\ UNCHANGED <<this_arg, search_value, replace_vars>>

\* a faulty variant of MatchDefine: every match is stored as element 0
MatchDefineFirst(array, index, match_string_value) ==
  <<match_string_value>>

\* lines 663-694: element n of the array is defined as the matched string
MatchDefine(array, index, match_string_value) ==
  [i \in 1..(IF Len(array) > index THEN Len(array) ELSE index + 1) |->
     IF i = index + 1 THEN match_string_value ELSE array[i]]

\* a faulty variant of MatchResult: with nothing stored no completion is made
MatchResultNoNull(count, array) ==
  IF count = 0 THEN EmptyCompletion ELSE NormalCompletion(ArrayObj(array))

\* lines 707-719: null when nothing was stored, the array otherwise
MatchResult(count, array) ==
  IF count = 0 THEN NormalCompletion(Null) ELSE NormalCompletion(ArrayObj(array))

\* lines 657-697: the match is stored unless the put threw
MatchStored(ex, put, last, from) ==
  IF ecma_is_completion_value_throw(put.completion)
    THEN /\ Return(put.completion, Append(log, ExecEvent(ex, from, put.re.lastIndex)))
         /\ regexp' = put.re
         /\ UNCHANGED match_vars
    ELSE /\ pc' = "match_loop"
         /\ regexp' = put.re
         /\ previous_last_index' = last
         /\ new_array' = MatchDefine(new_array, n, MatchGet(ex.completion.value, 0))
         /\ n' = n + 1
         /\ log' = Append(log, ExecEvent(ex, from, put.re.lastIndex))
         /\ UNCHANGED ret_value

\* a faulty variant of MatchIndex: lastIndex is never forced forward
MatchIndexNeverForced(ex, this_index, from) ==
  MatchStored(ex, [completion |-> NormalCompletion(Undefined), re |-> ex.re], this_index, from)

\* lines 621-655: lastIndex is forced forward when the exec left it where
\* the previous turn had left it
MatchIndex(ex, this_index, from) ==
  IF this_index = previous_last_index
    THEN MatchStored(ex, PutLastIndex(ex.re, this_index + 1), this_index + 1, from)
    ELSE MatchStored(ex, [completion |-> NormalCompletion(Undefined), re |-> ex.re],
                     this_index, from)

\* lines 609-705: what a loop turn does with the result of the exec
MatchExec(ex, from) ==
  IF ecma_is_completion_value_throw(ex.completion)
    THEN /\ Return(ex.completion, Append(log, ExecEvent(ex, from, ex.re.lastIndex)))
         /\ regexp' = ex.re
         /\ UNCHANGED match_vars
  ELSE IF ecma_is_value_null(ex.completion.value)
    THEN /\ Return(MatchResult(n, new_array),
                   Append(log, ExecEvent(ex, from, ex.re.lastIndex)))
         /\ regexp' = ex.re
         /\ UNCHANGED match_vars
  ELSE MatchIndex(ex, ex.re.lastIndex, from)

\* one turn of the loop of a global match (lines 606-705) and, when the exec
\* finds nothing, the result (lines 707-719)
MatchLoop ==
  /\ pc = "match_loop"
  /\ MatchExec(ecma_regexp_exec_helper(regexp,
                                       ecma_op_to_string(this_arg, "to_string_this").value.s,
                                       FALSE),
               regexp.lastIndex)
  /\ UNCHANGED <<this_arg, search_value, replace_vars>>

InitMatch ==
  /\ pc = "match_call"
  /\ this_arg \in {StrV(s) : s \in Subjects} \cup {Undefined, ThrowingObj}
  /\ \/ search_value = RegExpObj /\ regexp \in RegExps
     \/ search_value \in {Undefined, ThrowingObj} /\ regexp = NoRegExp
  /\ replace_value = Undefined
  /\ context = NoContext
  /\ match_value = Null
  /\ previous_start = 0
  /\ result_string = <<>>
  /\ ret_value = EmptyCompletion
  /\ cb_writes = 0
  /\ frames = <<>>
  /\ previous_last_index = 0
  /\ n = 0
  /\ new_array = <<>>
  /\ log = <<>>

NextMatch ==
  \/ Match
  \/ MatchLoop

SpecMatch == InitMatch /\ [][NextMatch]_vars

(* ------------- match, then replace, with the same regexp --------------- *)

\* the pattern $: the empty string at the end of the input, nowhere else
PatEnd == << << <<LIT_CHAR_DOLLAR_SIGN>> >> >>
\* the pattern a$ and the pattern a|$
PatAEnd == << << <<A, LIT_CHAR_DOLLAR_SIGN>> >> >>
PatAorEnd == << << <<A>> >>, << <<LIT_CHAR_DOLLAR_SIGN>> >> >>

\* global regular expressions whose lastIndex the program alone writes
BothRegExps ==
  {[alts |-> p, global |-> TRUE, lastIndex |-> li, writable |-> TRUE] :
     p \in Patterns \cup {PatEnd, PatAEnd, PatAorEnd}, li \in {0, 1}}

\* user code: s.match (re), then s.replace (re, template) with the same s
\* and the same regexp object; the steps of the match are kept in frames
ThenReplace ==
  /\ pc = "done"
  /\ frames = <<>>
  /\ frames' = <<Frame(log)>>
  /\ pc' = "call"
  /\ context' = NoContext
  /\ match_value' = Null
  /\ previous_start' = 0
  /\ result_string' = <<>>
  /\ ret_value' = EmptyCompletion
  /\ log' = <<>>
  /\ UNCHANGED <<args, regexp, cb_writes, match_vars>>

InitBoth ==
  /\ pc = "match_call"
  /\ this_arg \in {StrV(s) : s \in Subjects}
  /\ search_value = RegExpObj
  /\ regexp \in BothRegExps
  /\ replace_value \in {StrV(<<LIT_CHAR_LOWERCASE_X>>), StrV(<<>>)}
  /\ context = NoContext
  /\ match_value = Null
  /\ previous_start = 0
  /\ result_string = <<>>
  /\ ret_value = EmptyCompletion
  /\ cb_writes = 0
  /\ frames = <<>>
  /\ previous_last_index = 0
  /\ n = 0
  /\ new_array = <<>>
  /\ log = <<>>

NextBoth ==
  \/ Match
  \/ MatchLoop
  \/ ThenReplace
  \/ Replace
  \/ ReplaceLoopMatch
  \/ ReplaceGetStringTemplate

SpecBoth == InitBoth /\ [][NextBoth]_vars

(* -------------------------------- search ------------------------------- *)

\* lines 1555-1582: the index of the match, or -1
SearchExec(ex, from, newlog) ==
  /\ regexp' = ex.re
  /\ IF ecma_is_completion_value_throw(ex.completion)
       THEN Return(ex.completion, Append(newlog, ExecEvent(ex, from, ex.re.lastIndex)))
       ELSE Return(NormalCompletion(NumV(IF ecma_is_value_null(ex.completion.value) THEN -1
                                         ELSE ex.completion.value.index)),
                   Append(newlog, ExecEvent(ex, from, ex.re.lastIndex)))

\* a faulty variant of SearchRun: the exec is not told to ignore the global flag
SearchRunGlobal(input, re, newlog) ==
  SearchExec(ecma_regexp_exec_helper(re, input, FALSE), re.lastIndex, newlog)

\* lines 1549-1553: one exec, in search mode
SearchRun(input, re, newlog) ==
  SearchExec(ecma_regexp_exec_helper(re, input, TRUE), re.lastIndex, newlog)

\* lines 1536-1546: a regexp is constructed from the argument
SearchConstructed(input, made, newlog) ==
  IF ecma_is_completion_value_throw(made.completion)
    THEN Return(made.completion, newlog) /\ UNCHANGED regexp
    ELSE SearchRun(input, made.re, newlog)

\* lines 1526-1546: the argument is a regexp object or a regexp is made of it
SearchArg(input, newlog) ==
  IF IsRegExpObject(search_value)
    THEN SearchRun(input, regexp, newlog)
    ELSE SearchConstructed(input, RegExpConstruct(search_value),
                           Append(newlog, Ev("construct", search_value,
                                             RegExpConstruct(search_value).completion)))

\* lines 1521-1524: ToString of this
SearchThis(to_string_value, newlog) ==
  IF ecma_is_completion_value_throw(to_string_value)
    THEN Return(to_string_value, newlog) /\ UNCHANGED regexp
    ELSE SearchArg(to_string_value.value.s, newlog)

\* lines 1516-1519: this must be coercible
SearchCoercible(coercible, newlog) ==
  IF ecma_is_completion_value_throw(coercible)
    THEN Return(coercible, newlog) /\ UNCHANGED regexp
    ELSE SearchThis(ecma_op_to_string(this_arg, "to_string_this"),
                    Append(newlog, Ev("to_string_this", this_arg,
                                      ecma_op_to_string(this_arg, "to_string_this"))))

\* ecma_builtin_string_prototype_object_search (lines 1510-1593)
Search ==
  /\ pc = "search_call"
  /\ SearchCoercible(ecma_op_check_object_coercible(this_arg),
                     Append(log, Ev("check_coercible", this_arg,
                                    ecma_op_check_object_coercible(this_arg))))
  /\ UNCHANGED <<this_arg, search_value, replace_vars, match_vars>>

\* the state before a routine of one argument is called
InitCall(where) ==
  /\ pc = where
  /\ replace_value = Undefined
  /\ context = NoContext
  /\ match_value = Null
  /\ previous_start = 0
  /\ result_string = <<>>
  /\ ret_value = EmptyCompletion
  /\ cb_writes = 0
  /\ frames = <<>>
  /\ previous_last_index = 0
  /\ n = 0
  /\ new_array = <<>>
  /\ log = <<>>

InitSearch ==
  /\ InitCall("search_call")
  /\ this_arg \in {StrV(s) : s \in Subjects} \cup {Undefined, ThrowingObj}
  /\ \/ search_value = RegExpObj /\ regexp \in RegExps
     \/ search_value \in {Undefined, ThrowingObj} /\ regexp = NoRegExp

NextSearch == Search

SpecSearch == InitSearch /\ [][NextSearch]_vars

(* ------------------------------- indexOf ------------------------------- *)

\* lines 395-399: the number of code units that agree from index on
RECURSIVE IndexOfMatchLen(_, _, _, _)
IndexOfMatchLen(original, search, index, match_len) ==
  IF match_len < Len(search) /\ original[index + match_len + 1] = search[match_len + 1]
    THEN IndexOfMatchLen(original, search, index, match_len + 1)
    ELSE match_len

\* a faulty variant of IndexOfScan: the scan stops one anchor early
IndexOfScanShort(original, search, index) ==
  IF \E i \in index..(Len(original) - Len(search) - 1) : IsPrefixAt(search, original, i)
    THEN Least({i \in index..(Len(original) - Len(search) - 1) : IsPrefixAt(search, original, i)})
    ELSE -1

\* lines 390-415: the anchors from index on, left to right
RECURSIVE IndexOfScan(_, _, _)
IndexOfScan(original, search, index) ==
  IF index > Len(original) - Len(search) THEN -1
  ELSE IF IndexOfMatchLen(original, search, index, 0) = Len(search) THEN index
  ELSE IndexOfScan(original, search, index + 1)

\* lines 350-420: the number returned
IndexOfResult(original, search, start) ==
  IF ecma_string_get_length(search) <= ecma_string_get_length(original)
    THEN (IF ecma_string_get_length(search) = 0 THEN 0
          ELSE IndexOfScan(original, search, start))
    ELSE -1

\* lines 337-423: the start is normalised and the search made
IndexOfNumber(original, search, pos_num, newlog) ==
  IF ecma_is_completion_value_throw(pos_num)
    THEN Return(pos_num, newlog)
    ELSE Return(NormalCompletion(NumV(
                  IndexOfResult(original, search,
                                ecma_builtin_helper_string_index_normalize(
                                  pos_num.value, ecma_string_get_length(original))))),
                newlog)

\* lines 327-335: ToString of the first argument, ToNumber of the second
IndexOfSearch(original, search_str_val, newlog) ==
  IF ecma_is_completion_value_throw(search_str_val)
    THEN Return(search_str_val, newlog)
    ELSE IndexOfNumber(original, search_str_val.value.s,
                       ecma_op_to_number(replace_value, "to_number_arg2"),
                       Append(newlog, Ev("to_number_arg2", replace_value,
                                         ecma_op_to_number(replace_value, "to_number_arg2"))))

\* lines 322-325: ToString of this
IndexOfThis(to_str_val, newlog) ==
  IF ecma_is_completion_value_throw(to_str_val)
    THEN Return(to_str_val, newlog)
    ELSE IndexOfSearch(to_str_val.value.s, ecma_op_to_string(search_value, "to_string_arg1"),
                       Append(newlog, Ev("to_string_arg1", search_value,
                                         ecma_op_to_string(search_value, "to_string_arg1"))))

\* lines 317-320: this must be coercible
IndexOfCoercible(coercible, newlog) ==
  IF ecma_is_completion_value_throw(coercible)
    THEN Return(coercible, newlog)
    ELSE IndexOfThis(ecma_op_to_string(this_arg, "to_string_this"),
                     Append(newlog, Ev("to_string_this", this_arg,
                                       ecma_op_to_string(this_arg, "to_string_this"))))

\* the variables a routine without a regexp leaves alone
call_frame == <<args, regexp, context, match_value, previous_start, result_string,
                cb_writes, match_vars, frames>>

\* ecma_builtin_string_prototype_object_index_of (lines 310-431)
IndexOf ==
  /\ pc = "index_of_call"
  /\ IndexOfCoercible(ecma_op_check_object_coercible(this_arg),
                      Append(log, Ev("check_coercible", this_arg,
                                     ecma_op_check_object_coercible(this_arg))))
  /\ UNCHANGED call_frame

(* -------- charAt, charCodeAt, concat, localeCompare, toString ---------- *)

\* an object of class String and its primitive value
StringObj(s) == [t |-> "object", class |-> "String", s |-> s]

\* steps 1 and 2 of every routine but toString and valueOf: this must be
\* coercible and is then turned into a string (lines 130-138 in charAt)
CoercedThis ==
  IF ecma_is_completion_value_throw(ecma_op_check_object_coercible(this_arg))
    THEN ecma_op_check_object_coercible(this_arg)
    ELSE ecma_op_to_string(this_arg, "to_string_this")

\* the log after these two steps
CoercedLog ==
  IF ecma_is_completion_value_throw(ecma_op_check_object_coercible(this_arg))
    THEN Append(log, Ev("check_coercible", this_arg, ecma_op_check_object_coercible(this_arg)))
    ELSE log \o <<Ev("check_coercible", this_arg, ecma_op_check_object_coercible(this_arg)),
                  Ev("to_string_this", this_arg, ecma_op_to_string(this_arg, "to_string_this"))>>

\* the log after ToNumber or ToString of an argument gave completion c
Coerced(tag, v, c) == Append(CoercedLog, Ev(tag, v, c))

\* a faulty variant of ToStringResult: any value that has a string gives it
ToStringResultCoerces(this) ==
  IF this.t = "object" /\ this.class = "String"
    THEN NormalCompletion(StrV(this.s))
    ELSE ecma_op_to_string(this, "type")

\* lines 69-91: a string is returned as it is, an object of class String
\* gives its primitive value, anything else a TypeError
ToStringResult(this) ==
  IF ecma_is_value_string(this)
    THEN NormalCompletion(this)
    ELSE IF this.t = "object" /\ this.class = "String"
      THEN NormalCompletion(StrV(this.s))
      ELSE ThrowCompletion("type")

\* ecma_builtin_string_prototype_object_to_string (lines 66-92) and
\* ecma_builtin_string_prototype_object_value_of (lines 103-107), which calls it
ToStringRoutine ==
  /\ pc \in {"to_string_call", "value_of_call"}
  /\ Return(ToStringResult(this_arg), log)
  /\ UNCHANGED call_frame

\* lines 146-158: the code unit at index_num, or the empty string
CharAtIndex(original, index_num) ==
  IF index_num.t = "nan"
    THEN (IF Len(original) = 0 THEN <<>> ELSE <<original[1]>>)
    ELSE IF index_num.n < 0 \/ index_num.n >= Len(original) \/ Len(original) = 0
      THEN <<>>
      ELSE <<original[index_num.n + 1]>>

\* ecma_builtin_string_prototype_object_char_at (lines 118-163)
CharAt ==
  /\ pc = "char_at_call"
  /\ IF ecma_is_completion_value_throw(CoercedThis)
       THEN Return(CoercedThis, CoercedLog)
       ELSE IF ecma_is_completion_value_throw(ecma_op_to_number(search_value, "to_number_arg1"))
         THEN Return(ecma_op_to_number(search_value, "to_number_arg1"),
                     Coerced("to_number_arg1", search_value,
                             ecma_op_to_number(search_value, "to_number_arg1")))
         ELSE Return(NormalCompletion(StrV(
                       CharAtIndex(CoercedThis.value.s,
                                   ecma_op_to_number(search_value, "to_number_arg1").value))),
                     Coerced("to_number_arg1", search_value,
                             ecma_op_to_number(search_value, "to_number_arg1")))
  /\ UNCHANGED call_frame

\* a faulty variant of CharCodeAtIndex: a position that is NaN gives NaN
CharCodeAtIndexNaN(original, index_num) ==
  IF index_num.t = "nan" \/ index_num.n < 0 \/ index_num.n >= Len(original)
    THEN NaNV
    ELSE NumV(original[index_num.n + 1])

\* lines 204-221: the number of the code unit at index_num, or NaN
CharCodeAtIndex(original, index_num) ==
  IF index_num.t = "nan"
    THEN (IF Len(original) = 0 THEN NaNV ELSE NumV(original[1]))
    ELSE IF index_num.n < 0 \/ index_num.n >= Len(original)
      THEN NaNV
      ELSE NumV(original[index_num.n + 1])

\* ecma_builtin_string_prototype_object_char_code_at (lines 174-231)
CharCodeAt ==
  /\ pc = "char_code_at_call"
  /\ IF ecma_is_completion_value_throw(CoercedThis)
       THEN Return(CoercedThis, CoercedLog)
       ELSE IF ecma_is_completion_value_throw(ecma_op_to_number(search_value, "to_number_arg1"))
         THEN Return(ecma_op_to_number(search_value, "to_number_arg1"),
                     Coerced("to_number_arg1", search_value,
                             ecma_op_to_number(search_value, "to_number_arg1")))
         ELSE Return(NormalCompletion(
                       CharCodeAtIndex(CoercedThis.value.s,
                                       ecma_op_to_number(search_value, "to_number_arg1").value)),
                     Coerced("to_number_arg1", search_value,
                             ecma_op_to_number(search_value, "to_number_arg1")))
  /\ UNCHANGED call_frame

\* the names of the coercions of the arguments of concat
ArgTags == <<"to_string_arg1", "to_string_arg2", "to_string_arg3", "to_string_arg4",
            "to_string_arg5">>

ArgTag(arg_index) == ArgTags[arg_index + 1]

ArgTagSet == {ArgTags[i] : i \in 1..Len(ArgTags)}

\* a faulty variant of ConcatLoop: a throw does not end the loop
RECURSIVE ConcatLoopGoesOn(_, _, _, _)
ConcatLoopGoesOn(list, arg_index, string_to_return, newlog) ==
  IF arg_index >= Len(list)
    THEN Return(ThrowCompletion(ArgTag(0)), newlog)
    ELSE ConcatLoopGoesOn(list, arg_index + 1, string_to_return,
                          Append(newlog, Ev(ArgTag(arg_index), list[arg_index + 1],
                                            ecma_op_to_string(list[arg_index + 1], ArgTag(arg_index)))))

\* a faulty variant of ConcatLoop: an argument that cannot be coerced is
\* passed over
RECURSIVE ConcatLoopSkips(_, _, _, _)
ConcatLoopSkips(list, arg_index, string_to_return, newlog) ==
  IF arg_index >= Len(list)
    THEN Return(NormalCompletion(StrV(string_to_return)), newlog)
    ELSE ConcatLoopSkips(list, arg_index + 1,
                         IF ecma_is_completion_value_throw(
                              ecma_op_to_string(list[arg_index + 1], ArgTag(arg_index)))
                           THEN string_to_return
                           ELSE ecma_concat_ecma_strings(
                                  string_to_return,
                                  ecma_op_to_string(list[arg_index + 1], ArgTag(arg_index)).value.s),
                         newlog)

\* lines 266-293: the arguments are coerced and appended from left to right
\* while no completion has been stored; when one throws, the string built so
\* far is dereferenced (line 290)
RECURSIVE ConcatLoop(_, _, _, _)
ConcatLoop(list, arg_index, string_to_return, newlog) ==
  IF arg_index >= Len(list)
    THEN Return(NormalCompletion(StrV(string_to_return)), newlog)
    ELSE IF ecma_is_completion_value_throw(ecma_op_to_string(list[arg_index + 1], ArgTag(arg_index)))
      THEN Return(ecma_op_to_string(list[arg_index + 1], ArgTag(arg_index)),
                  newlog \o <<Ev(ArgTag(arg_index), list[arg_index + 1],
                                 ecma_op_to_string(list[arg_index + 1], ArgTag(arg_index))),
                              Ev("deref", StrV(string_to_return), EmptyCompletion)>>)
      ELSE ConcatLoop(list, arg_index + 1,
                      ecma_concat_ecma_strings(
                        string_to_return,
                        ecma_op_to_string(list[arg_index + 1], ArgTag(arg_index)).value.s),
                      Append(newlog, Ev(ArgTag(arg_index), list[arg_index + 1],
                                        ecma_op_to_string(list[arg_index + 1], ArgTag(arg_index)))))

\* ecma_builtin_string_prototype_object_concat (lines 242-299); the argument
\* list is the element list of search_value
Concat ==
  /\ pc = "concat_call"
  /\ IF ecma_is_completion_value_throw(CoercedThis)
       THEN Return(CoercedThis, CoercedLog)
       ELSE ConcatLoop(search_value.elems, 0, CoercedThis.value.s, CoercedLog)
  /\ UNCHANGED call_frame

\* ecma_compare_ecma_strings_relational: a is before b, code unit by code unit
RECURSIVE ecma_compare_ecma_strings_relational(_, _)
ecma_compare_ecma_strings_relational(a, b) ==
  IF b = <<>> THEN FALSE
  ELSE IF a = <<>> THEN TRUE
  ELSE IF a[1] # b[1] THEN a[1] < b[1]
  ELSE ecma_compare_ecma_strings_relational(Tail(a), Tail(b))

\* a faulty variant of LocaleCompareResult: the test for equal strings is
\* left out
LocaleCompareResultNoEqual(this_string, arg_string) ==
  IF ecma_compare_ecma_strings_relational(this_string, arg_string) THEN -1 ELSE 1

\* lines 481-494: the number localeCompare returns
LocaleCompareResult(this_string, arg_string) ==
  IF ecma_compare_ecma_strings_relational(this_string, arg_string) THEN -1
  ELSE IF this_string # arg_string THEN 1
  ELSE 0

\* ecma_builtin_string_prototype_object_locale_compare (lines 459-505)
LocaleCompare ==
  /\ pc = "locale_compare_call"
  /\ IF ecma_is_completion_value_throw(CoercedThis)
       THEN Return(CoercedThis, CoercedLog)
       ELSE IF ecma_is_completion_value_throw(ecma_op_to_string(search_value, "to_string_arg1"))
         THEN Return(ecma_op_to_string(search_value, "to_string_arg1"),
                     Coerced("to_string_arg1", search_value,
                             ecma_op_to_string(search_value, "to_string_arg1")))
         ELSE Return(NormalCompletion(NumV(
                       LocaleCompareResult(CoercedThis.value.s,
                                           ecma_op_to_string(search_value, "to_string_arg1").value.s))),
                     Coerced("to_string_arg1", search_value,
                             ecma_op_to_string(search_value, "to_string_arg1")))
  /\ UNCHANGED call_frame

(* -------------------------- slice and substring ------------------------ *)

\* a faulty variant of SliceTake: the indices are put in order first
SliceTakeSwapped(original, start, end, newlog) ==
  Return(NormalCompletion(StrV(
           ecma_string_substr(original, IF start < end THEN start ELSE end,
                              IF start > end THEN start ELSE end))), newlog)

\* lines 1653-1660: the indices are within the string and the part between
\* them, in the order given, is the result
SliceTake(original, start, end, newlog) ==
  IF start <= ecma_string_get_length(original) /\ end <= ecma_string_get_length(original)
    THEN Return(NormalCompletion(StrV(ecma_string_substr(original, start, end))), newlog)
    ELSE Stop("fatal", newlog)

\* lines 1637-1651: the end is the length, or the second argument normalised
SliceEnd(original, start, newlog) ==
  IF ecma_is_value_undefined(replace_value)
    THEN SliceTake(original, start, ecma_string_get_length(original), newlog)
    ELSE IF ecma_is_completion_value_throw(ecma_op_to_number(replace_value, "to_number_arg2"))
      THEN Return(ecma_op_to_number(replace_value, "to_number_arg2"),
                  Append(newlog, Ev("to_number_arg2", replace_value,
                                    ecma_op_to_number(replace_value, "to_number_arg2"))))
      ELSE SliceTake(original, start,
                     ecma_builtin_helper_array_index_normalize(
                       ecma_op_to_number(replace_value, "to_number_arg2").value,
                       ecma_string_get_length(original)),
                     Append(newlog, Ev("to_number_arg2", replace_value,
                                       ecma_op_to_number(replace_value, "to_number_arg2"))))

\* ecma_builtin_string_prototype_object_slice (lines 1597-1670)
Slice ==
  /\ pc = "slice_call"
  /\ IF ecma_is_completion_value_throw(CoercedThis)
       THEN Return(CoercedThis, CoercedLog)
       ELSE IF ecma_is_completion_value_throw(ecma_op_to_number(search_value, "to_number_arg1"))
         THEN Return(ecma_op_to_number(search_value, "to_number_arg1"),
                     Coerced("to_number_arg1", search_value,
                             ecma_op_to_number(search_value, "to_number_arg1")))
         ELSE SliceEnd(CoercedThis.value.s,
                       ecma_builtin_helper_array_index_normalize(
                         ecma_op_to_number(search_value, "to_number_arg1").value,
                         ecma_string_get_length(CoercedThis.value.s)),
                       Coerced("to_number_arg1", search_value,
                               ecma_op_to_number(search_value, "to_number_arg1")))
  /\ UNCHANGED call_frame

\* a faulty variant of SubstringTake: the indices are taken as given
SubstringTakeAsGiven(original, start, end, newlog) ==
  Return(NormalCompletion(StrV(ecma_string_substr(original, start, end))), newlog)

\* lines 1743-1756: the indices are within the string and the part between
\* the lesser and the greater is the result
SubstringTake(original, start, end, newlog) ==
  IF start <= ecma_string_get_length(original) /\ end <= ecma_string_get_length(original)
    THEN Return(NormalCompletion(StrV(
                  ecma_string_substr(original, IF start < end THEN start ELSE end,
                                     IF start > end THEN start ELSE end))), newlog)
    ELSE Stop("fatal", newlog)

\* lines 1727-1741: the end is the length, or the second argument normalised
SubstringEnd(original, start, newlog) ==
  IF ecma_is_value_undefined(replace_value)
    THEN SubstringTake(original, start, ecma_string_get_length(original), newlog)
    ELSE IF ecma_is_completion_value_throw(ecma_op_to_number(replace_value, "to_number_arg2"))
      THEN Return(ecma_op_to_number(replace_value, "to_number_arg2"),
                  Append(newlog, Ev("to_number_arg2", replace_value,
                                    ecma_op_to_number(replace_value, "to_number_arg2"))))
      ELSE SubstringTake(original, start,
                         ecma_builtin_helper_string_index_normalize(
                           ecma_op_to_number(replace_value, "to_number_arg2").value,
                           ecma_string_get_length(original)),
                         Append(newlog, Ev("to_number_arg2", replace_value,
                                           ecma_op_to_number(replace_value, "to_number_arg2"))))

\* ecma_builtin_string_prototype_object_substring (lines 1689-1765)
Substring ==
  /\ pc = "substring_call"
  /\ IF ecma_is_completion_value_throw(CoercedThis)
       THEN Return(CoercedThis, CoercedLog)
       ELSE IF ecma_is_completion_value_throw(ecma_op_to_number(search_value, "to_number_arg1"))
         THEN Return(ecma_op_to_number(search_value, "to_number_arg1"),
                     Coerced("to_number_arg1", search_value,
                             ecma_op_to_number(search_value, "to_number_arg1")))
         ELSE SubstringEnd(CoercedThis.value.s,
                           ecma_builtin_helper_string_index_normalize(
                             ecma_op_to_number(search_value, "to_number_arg1").value,
                             ecma_string_get_length(CoercedThis.value.s)),
                           Coerced("to_number_arg1", search_value,
                                   ecma_op_to_number(search_value, "to_number_arg1")))
  /\ UNCHANGED call_frame

(* --------------------------------- trim -------------------------------- *)

\* the code units of the subjects of trim: a space, a line feed, a letter,
\* and two code units of two bytes each, a no-break space and a letter
LIT_CHAR_LF == 10
LIT_CHAR_SP == 32
LIT_CHAR_NBSP == 160
LATIN_SMALL_E_ACUTE == 233

\* lit_char_is_white_space, for the code units below 256
lit_char_is_white_space(c) == c \in {9, 11, 12, LIT_CHAR_SP, LIT_CHAR_NBSP}

\* lit_char_is_line_terminator, for the code units below 256
lit_char_is_line_terminator(c) == c \in {LIT_CHAR_LF, 13}

\* the number of bytes of the UTF-8 encoding of code unit c
UnitSize(c) == IF c < 128 THEN 1 ELSE IF c < 2048 THEN 2 ELSE 3

\* ecma_string_get_size: the number of bytes of the UTF-8 encoding of s
RECURSIVE ecma_string_get_size(_)
ecma_string_get_size(s) ==
  IF s = <<>> THEN 0 ELSE UnitSize(s[1]) + ecma_string_get_size(Tail(s))

\* what a read of a code unit past the last one can give: the assertion of
\* the iterator fails, or some code unit is read from beyond the buffer
StrayUnits ==
  OobOutcomes \cup {[assert |-> FALSE, ch |-> LIT_CHAR_SP]}

\* lit_utf8_string_code_unit_at
lit_utf8_string_code_unit_at(s, code_unit_offset, oob) ==
  IF code_unit_offset < Len(s) THEN [ok |-> TRUE, ch |-> s[code_unit_offset + 1]]
  ELSE [ok |-> ~oob.assert, ch |-> oob.ch]

\* lines 2022-2037: the code units skipped at the front, -1 when a read fails
RECURSIVE TrimPrefix(_, _, _, _)
TrimPrefix(s, length, prefix, oob) ==
  IF prefix < length
    THEN IF ~lit_utf8_string_code_unit_at(s, prefix, oob).ok THEN -1
         ELSE IF lit_char_is_white_space(lit_utf8_string_code_unit_at(s, prefix, oob).ch)
                 \/ lit_char_is_line_terminator(lit_utf8_string_code_unit_at(s, prefix, oob).ch)
           THEN TrimPrefix(s, length, prefix + 1, oob)
           ELSE prefix
    ELSE prefix

\* lines 2039-2053: the code units skipped at the back, -1 when a read fails
RECURSIVE TrimPostfix(_, _, _, _, _)
TrimPostfix(s, length, prefix, postfix, oob) ==
  IF postfix < length - prefix
    THEN IF ~lit_utf8_string_code_unit_at(s, length - postfix - 1, oob).ok THEN -1
         ELSE IF lit_char_is_white_space(lit_utf8_string_code_unit_at(s, length - postfix - 1, oob).ch)
                 \/ lit_char_is_line_terminator(lit_utf8_string_code_unit_at(s, length - postfix - 1, oob).ch)
           THEN TrimPostfix(s, length, prefix, postfix + 1, oob)
           ELSE postfix
    ELSE postfix

\* lines 2057-2060: the substring from start to end; ecma_string_substr
\* asserts that end is within the string and reads past it otherwise
TrimSubstr(s, start, end, newlog) ==
  IF end <= ecma_string_get_length(s)
    THEN Return(NormalCompletion(StrV(ecma_string_substr(s, start, end))), newlog)
    ELSE \E where \in {"fatal", "ub"} : Stop(where, newlog)

\* lines 2055-2057: the length of the result from the two counts
TrimTake(s, size, prefix, postfix, newlog) ==
  IF prefix < 0 \/ postfix < 0
    THEN Stop("fatal", newlog)
    ELSE TrimSubstr(s, prefix,
                    prefix + (IF prefix < size THEN size - prefix - postfix ELSE 0), newlog)

\* lines 2011-2053: size and length are both the number of bytes
TrimScan(s, size, length, prefix, oob, newlog) ==
  IF prefix < 0
    THEN Stop("fatal", newlog)
    ELSE TrimTake(s, size, prefix, TrimPostfix(s, length, prefix, 0, oob), newlog)

\* ecma_builtin_string_prototype_object_trim (lines 1993-2068)
Trim ==
  /\ pc = "trim_call"
  /\ IF ecma_is_completion_value_throw(CoercedThis)
       THEN Return(CoercedThis, CoercedLog)
       ELSE \E oob \in StrayUnits :
              TrimScan(CoercedThis.value.s,
                       ecma_string_get_size(CoercedThis.value.s),
                       ecma_string_get_size(CoercedThis.value.s),
                       TrimPrefix(CoercedThis.value.s,
                                  ecma_string_get_size(CoercedThis.value.s), 0, oob),
                       oob, CoercedLog)
  /\ UNCHANGED call_frame

(* --------------------------- case conversion --------------------------- *)

\* the code units of the subjects of case conversion
LIT_CHAR_UPPERCASE_A == 65
LIT_CHAR_UPPERCASE_S == 83
LIT_CHAR_LOWERCASE_S == 115
LATIN_SMALL_SHARP_S == 223
LIT_UTF16_HIGH_SURROGATE_MIN == 55296
LIT_UTF16_LOW_SURROGATE_MIN == 56320
LIT_UTF16_LOW_SURROGATE_MAX == 57343
\* the most code units one code unit is mapped to
LIT_MAXIMUM_OTHER_CASE_LENGTH == 3

lit_is_code_unit_high_surrogate(c) ==
  c >= LIT_UTF16_HIGH_SURROGATE_MIN /\ c < LIT_UTF16_LOW_SURROGATE_MIN

lit_is_code_unit_low_surrogate(c) ==
  c >= LIT_UTF16_LOW_SURROGATE_MIN /\ c <= LIT_UTF16_LOW_SURROGATE_MAX

\* lit_convert_surrogate_pair_to_code_point
lit_convert_surrogate_pair_to_code_point(high, low) ==
  65536 + (high - LIT_UTF16_HIGH_SURROGATE_MIN) * 1024 + (low - LIT_UTF16_LOW_SURROGATE_MIN)

\* lit_code_point_to_utf8: the number of bytes written for a code point
PointSize(cp) == IF cp < 65536 THEN UnitSize(cp) ELSE 4

\* the number of bytes written for a sequence of code points
RECURSIVE PointsSize(_)
PointsSize(points) ==
  IF points = <<>> THEN 0 ELSE PointSize(points[1]) + PointsSize(Tail(points))

\* ecma_new_ecma_string_from_utf8: the code units of the encoded code points;
\* a code point above the basic plane is read back as a surrogate pair
RECURSIVE ecma_new_ecma_string_from_utf8(_)
ecma_new_ecma_string_from_utf8(points) ==
  IF points = <<>> THEN <<>>
  ELSE IF points[1] < 65536
    THEN <<points[1]>> \o ecma_new_ecma_string_from_utf8(Tail(points))
    ELSE <<LIT_UTF16_HIGH_SURROGATE_MIN + ((points[1] - 65536) \div 1024),
           LIT_UTF16_LOW_SURROGATE_MIN + ((points[1] - 65536) % 1024)>>
         \o ecma_new_ecma_string_from_utf8(Tail(points))

\* lit_char_to_lower_case, for the code units of this model
lit_char_to_lower_case(c) ==
  IF c = LIT_CHAR_UPPERCASE_A THEN <<LIT_CHAR_LOWERCASE_A>>
  ELSE IF c = LIT_CHAR_UPPERCASE_S THEN <<LIT_CHAR_LOWERCASE_S>>
  ELSE <<c>>

\* lit_char_to_upper_case, for the code units of this model; the sharp s
\* becomes two code units
lit_char_to_upper_case(c) ==
  IF c = LIT_CHAR_LOWERCASE_A THEN <<LIT_CHAR_UPPERCASE_A>>
  ELSE IF c = LIT_CHAR_LOWERCASE_S THEN <<LIT_CHAR_UPPERCASE_S>>
  ELSE IF c = LATIN_SMALL_SHARP_S THEN <<LIT_CHAR_UPPERCASE_S, LIT_CHAR_UPPERCASE_S>>
  ELSE <<c>>

\* lines 1833-1844 and 1888-1899: the code units character is mapped to
ConvertUnit(character, lower_case) ==
  IF lower_case THEN lit_char_to_lower_case(character) ELSE lit_char_to_upper_case(character)

\* what the read of the code unit after a last high surrogate can give
StrayAfterSurrogate ==
  OobOutcomes \cup {[assert |-> FALSE, ch |-> LIT_UTF16_LOW_SURROGATE_MIN]}

\* lines 1820-1831 and 1875-1886: the code unit at pos is the first of a
\* surrogate pair ("pair") or is mapped ("single"); the read of the next
\* code unit is made also when there is none
PairAt(s, pos, oob) ==
  IF ~lit_is_code_unit_high_surrogate(s[pos + 1]) THEN "single"
  ELSE IF ~PeekNext(s, pos + 1, oob).ok THEN "fatal"
  ELSE IF lit_is_code_unit_low_surrogate(PeekNext(s, pos + 1, oob).ch)
    THEN (IF pos + 1 < Len(s) THEN "pair" ELSE "ub")
    ELSE "single"

\* lines 1809-1852: the first pass adds up the bytes of the output
RECURSIVE ConvertMeasure(_, _, _, _, _)
ConvertMeasure(s, pos, lower_case, oob, output_length) ==
  IF pos >= Len(s) THEN [st |-> "ok", n |-> output_length]
  ELSE IF PairAt(s, pos, oob) = "pair"
    THEN ConvertMeasure(s, pos + 2, lower_case, oob,
                        output_length
                          + PointSize(lit_convert_surrogate_pair_to_code_point(s[pos + 1], s[pos + 2])))
  ELSE IF PairAt(s, pos, oob) = "single"
    THEN (IF Len(ConvertUnit(s[pos + 1], lower_case)) \in 1..LIT_MAXIMUM_OTHER_CASE_LENGTH
            THEN ConvertMeasure(s, pos + 1, lower_case, oob,
                                output_length + ecma_string_get_size(ConvertUnit(s[pos + 1], lower_case)))
            ELSE [st |-> "fatal", n |-> output_length])
  ELSE [st |-> PairAt(s, pos, oob), n |-> output_length]

\* lines 1865-1907: the second pass writes the code points of the output
RECURSIVE ConvertWrite(_, _, _, _, _)
ConvertWrite(s, pos, lower_case, oob, output) ==
  IF pos >= Len(s) THEN [st |-> "ok", points |-> output]
  ELSE IF PairAt(s, pos, oob) = "pair"
    THEN ConvertWrite(s, pos + 2, lower_case, oob,
                      Append(output, lit_convert_surrogate_pair_to_code_point(s[pos + 1], s[pos + 2])))
  ELSE IF PairAt(s, pos, oob) = "single"
    THEN (IF Len(ConvertUnit(s[pos + 1], lower_case)) \in 1..LIT_MAXIMUM_OTHER_CASE_LENGTH
            THEN ConvertWrite(s, pos + 1, lower_case, oob,
                              output \o ConvertUnit(s[pos + 1], lower_case))
            ELSE [st |-> "fatal", points |-> output])
  ELSE [st |-> PairAt(s, pos, oob), points |-> output]

\* the log entry of a conversion: how each pass ended, output_length and the
\* bytes between output_start_p and output_char_p
ConvertEvent(measured, written) ==
  [e |-> "convert", v |-> Undefined, thrown |-> FALSE,
   measure |-> measured.st, output_length |-> measured.n,
   write |-> IF measured.st = "ok" THEN written.st ELSE "none",
   output_cursor |-> IF measured.st = "ok" THEN PointsSize(written.points) ELSE 0]

\* lines 1909-1913: as many bytes were written as were measured, and the
\* output becomes the string returned
ConvertEnd(measured, written, newlog) ==
  IF measured.st # "ok" THEN Stop(measured.st, Append(newlog, ConvertEvent(measured, written)))
  ELSE IF written.st # "ok"
    THEN Stop(written.st, Append(newlog, ConvertEvent(measured, written)))
  ELSE IF measured.n # PointsSize(written.points)
    THEN Stop("fatal", Append(newlog, ConvertEvent(measured, written)))
  ELSE Return(NormalCompletion(StrV(ecma_new_ecma_string_from_utf8(written.points))),
              Append(newlog, ConvertEvent(measured, written)))

\* the entries of the conversion to lower case
LowerCaseCalls == {"to_lower_case_call", "to_locale_lower_case_call"}
\* the entries of the conversion to upper case
UpperCaseCalls == {"to_upper_case_call", "to_locale_upper_case_call"}

\* ecma_builtin_string_prototype_object_conversion_helper (lines 1772-1922),
\* called by toLowerCase, toLocaleLowerCase (lower_case true), toUpperCase
\* and toLocaleUpperCase (lower_case false) (lines 1933-1982)
ConversionHelper ==
  /\ pc \in LowerCaseCalls \cup UpperCaseCalls
  /\ IF ecma_is_completion_value_throw(CoercedThis)
       THEN Return(CoercedThis, CoercedLog)
       ELSE \E oob1 \in StrayAfterSurrogate, oob2 \in StrayAfterSurrogate :
              ConvertEnd(ConvertMeasure(CoercedThis.value.s, 0, pc \in LowerCaseCalls, oob1, 0),
                         ConvertWrite(CoercedThis.value.s, 0, pc \in LowerCaseCalls, oob2, <<>>),
                         CoercedLog)
  /\ UNCHANGED call_frame

(* ------------------ the routines that make no calls -------------------- *)

\* the subject strings of these routines
Strings == StringsUpTo({A, B}, MaxStrLen)

\* the values this can be
ThisValues == {StrV(s) : s \in Strings} \cup {Undefined, Null, ThrowingObj}

\* the values a position argument can be
Positions == {NumV(k) : k \in (0 - MaxStrLen - 1)..(MaxStrLen + 1)} \cup {Undefined, ThrowingObj}

\* the state before a routine is called with arguments arg1 and arg2; the
\* log opens with the entry of the call
InitRoutine(where, this, arg1, arg2) ==
  /\ pc = where
  /\ this_arg = this
  /\ search_value = arg1
  /\ replace_value = arg2
  /\ regexp = NoRegExp
  /\ context = NoContext
  /\ match_value = Null
  /\ previous_start = 0
  /\ result_string = <<>>
  /\ ret_value = EmptyCompletion
  /\ cb_writes = 0
  /\ frames = <<>>
  /\ previous_last_index = 0
  /\ n = 0
  /\ new_array = <<>>
  /\ log = <<Ev(where, this, EmptyCompletion)>>

InitIndexOf ==
  \E this \in ThisValues,
     arg1 \in {StrV(s) : s \in StringsUpTo({A, B}, 2)} \cup {ThrowingObj},
     arg2 \in Positions :
    InitRoutine("index_of_call", this, arg1, arg2)

\* toString and valueOf take any this value and no argument
InitToString ==
  \E where \in {"to_string_call", "value_of_call"},
     this \in ThisValues \cup {StringObj(s) : s \in Strings} \cup {NumV(1)} :
    InitRoutine(where, this, Undefined, Undefined)

\* charAt, charCodeAt: a position; localeCompare: a value to compare with
InitOneArgument ==
  \/ \E where \in {"char_at_call", "char_code_at_call"}, this \in ThisValues, arg \in Positions :
       InitRoutine(where, this, arg, Undefined)
  \/ \E this \in ThisValues, arg \in {StrV(s) : s \in Strings} \cup {ThrowingObj} :
       InitRoutine("locale_compare_call", this, arg, Undefined)

\* the argument lists of concat
ConcatArguments ==
  {list \in UNION {[1..k -> {StrV(<<A>>), StrV(<<B, A>>), NumV(1), ThrowingObj}] : k \in 0..MaxStrLen} :
     TRUE}

InitConcat ==
  \E this \in ThisValues, list \in ConcatArguments :
    InitRoutine("concat_call", this, ArrayObj(list), Undefined)

\* slice, substring: two positions
InitTwoPositions ==
  \E where \in {"slice_call", "substring_call"}, this \in ThisValues,
     arg1 \in Positions, arg2 \in Positions :
    InitRoutine(where, this, arg1, arg2)

\* the subjects of trim
TrimSubjects ==
  StringsUpTo({LIT_CHAR_SP, LIT_CHAR_LF, A, LIT_CHAR_NBSP, LATIN_SMALL_E_ACUTE}, MaxStrLen)

InitTrim ==
  \E this \in {StrV(s) : s \in TrimSubjects} \cup {Undefined, Null, ThrowingObj} :
    InitRoutine("trim_call", this, Undefined, Undefined)

\* the subjects of case conversion
CaseSubjects ==
  StringsUpTo({A, LIT_CHAR_UPPERCASE_A, LATIN_SMALL_SHARP_S,
               LIT_UTF16_HIGH_SURROGATE_MIN, LIT_UTF16_LOW_SURROGATE_MIN}, MaxStrLen)

InitConversion ==
  \E where \in LowerCaseCalls \cup UpperCaseCalls,
     this \in {StrV(s) : s \in CaseSubjects} \cup {Undefined, Null, ThrowingObj} :
    InitRoutine(where, this, Undefined, Undefined)

\* a faulty variant of NotImplemented: the routine checks this and returns
NotImplementedAfterCheck(newlog) ==
  /\ Return(ecma_op_check_object_coercible(this_arg),
            Append(newlog, Ev("check_coercible", this_arg,
                              ecma_op_check_object_coercible(this_arg))))
  /\ UNCHANGED call_frame

\* ECMA_BUILTIN_CP_UNIMPLEMENTED (this_arg, arg1, arg2): the fatal "not
\* implemented" signal; the arguments are named and not used
NotImplemented(newlog) ==
  /\ Stop("fatal", newlog)
  /\ UNCHANGED call_frame

\* ecma_builtin_string_prototype_object_last_index_of (lines 442-448)
LastIndexOf ==
  /\ pc = "last_index_of_call"
  /\ NotImplemented(log)

\* ecma_builtin_string_prototype_object_split (lines 1679-1685)
Split ==
  /\ pc = "split_call"
  /\ NotImplemented(log)

UnimplementedCalls == {"last_index_of_call", "split_call"}

\* lastIndexOf (a string to look for, a position) and split (a separator,
\* a limit), with every this value
InitUnimplemented ==
  \E where \in UnimplementedCalls, this \in ThisValues,
     arg1 \in {StrV(<<A>>), Undefined, RegExpObj, ThrowingObj}, arg2 \in Positions :
    InitRoutine(where, this, arg1, arg2)

NextUnimplemented ==
  \/ LastIndexOf
  \/ Split

\* a call that can take a step takes it
SpecUnimplemented ==
  InitUnimplemented /\ [][NextUnimplemented]_vars /\ WF_vars(NextUnimplemented)

InitString ==
  \/ InitUnimplemented
  \/ InitIndexOf
  \/ InitConversion
  \/ InitTrim
  \/ InitToString
  \/ InitOneArgument
  \/ InitConcat
  \/ InitTwoPositions

NextString ==
  \/ NextUnimplemented
  \/ IndexOf
  \/ ConversionHelper
  \/ Trim
  \/ ToStringRoutine
  \/ CharAt
  \/ CharCodeAt
  \/ Concat
  \/ LocaleCompare
  \/ Slice
  \/ Substring

SpecString == InitString /\ [][NextString]_vars

(* ---------------------------- every routine --------------------------- *)

\* a call of any routine of the prototype object
InitAll ==
  \/ Init
  \/ InitMatch
  \/ InitSearch
  \/ InitString

NextAll ==
  \/ Next
  \/ NextMatch
  \/ NextSearch
  \/ NextString

SpecAll == InitAll /\ [][NextAll]_vars

(* ----------------------- properties of replace ------------------------ *)

\* the entries of the log named e
LogOf(e) == SelectSeq(log, LAMBDA x : x.e = e)

\* the find steps of the replace loop, and those that found a match
Finds == SelectSeq(log, LAMBDA x : x.e \in {"exec", "search"})
MatchesFound == SelectSeq(Finds, LAMBDA x : ~x.thrown /\ x.v # Null)
Substs == LogOf("subst")

\* replace returned a string
ReturnedString == pc = "done" /\ ret_value.type = "normal"

\* the pattern of the call occurs somewhere in s
PatternOccurs(s) ==
  IF IsRegExpObject(search_value)
    THEN \E i \in 0..Len(s) : \E k \in 1..Len(regexp.alts) :
           IsPrefixAt(FlattenSeq(regexp.alts[k]), s, i)
    ELSE \E i \in 0..Len(s) : IsPrefixAt(search_value.s, s, i)

\* C1: once the arguments are accepted and the loop has looked for a match,
\* a pattern that occurs nowhere in the subject makes replace return the
\* subject itself, without a call of the replacement function.
C1_NoMatchReturnsSubject ==
  (Finds # <<>> /\ ~PatternOccurs(this_arg.s)) =>
    /\ pc = "done"
    /\ ret_value = NormalCompletion(this_arg)
    /\ LogOf("call") = <<>>

C1_Witness ==
  /\ pc = "done"
  /\ Finds # <<>>
  /\ ~PatternOccurs(this_arg.s)
  /\ Len(this_arg.s) > 0
  /\ ecma_op_is_callable(replace_value)
  /\ IsRegExpObject(search_value)
  /\ regexp.global

\* every match the pattern has in s is the empty string, and it has one at
\* every offset
ZeroWidthEverywhere(alts, s) ==
  \A i \in 0..Len(s) :
    /\ AltsAt(alts, s, i) # {}
    /\ FlattenSeq(alts[Least(AltsAt(alts, s, i))]) = <<>>

GlobalReplace == IsRegExpObject(search_value) /\ regexp.global /\ pc # "call"

\* C2: a global replace whose replacement does not write lastIndex makes at
\* most n+1 substitutions and n+2 find steps on a subject of length n (every
\* step of the loop adds to the log, so the loop ends), and when every match
\* is zero-width and there is one at every offset it returns after exactly
\* n+1 substitutions.
C2_GlobalReplaceBounded ==
  (GlobalReplace /\ Finds # <<>> /\ LogOf("cb_write") = <<>>) =>
    /\ Len(Substs) <= Len(this_arg.s) + 1
    /\ Len(Finds) <= Len(this_arg.s) + 2
    /\ (ReturnedString /\ ZeroWidthEverywhere(regexp.alts, this_arg.s)) =>
         Len(Substs) = Len(this_arg.s) + 1

C2_Witness ==
  /\ GlobalReplace
  /\ ReturnedString
  /\ this_arg = StrV(<<A, B>>)
  /\ regexp.alts = PatEmpty
  /\ LogOf("cb_write") = <<>>
  /\ Len(Substs) = 3

\* the subject from offset cursor on, with the matches ms replaced by texts
RECURSIVE Spliced(_, _, _, _)
Spliced(subject, ms, texts, cursor) ==
  IF ms = <<>> THEN SubSeq(subject, cursor + 1, Len(subject))
  ELSE SubSeq(subject, cursor + 1, Head(ms).start) \o Head(texts).v.s
       \o Spliced(subject, Tail(ms), Tail(texts), Head(ms).end)

\* the bounds of every regexp match are its index and its index plus the
\* length of the whole match
BoundsFromExec ==
  \A i \in 1..Len(MatchesFound) :
    MatchesFound[i].e = "exec" =>
      /\ MatchesFound[i].start = MatchesFound[i].v.index
      /\ MatchesFound[i].end = MatchesFound[i].v.index + Len(MatchesFound[i].v.elems[1].s)

\* C3: when replace returns after matches [s_i, e_i) with texts r_i, the
\* result is subject[0,s_1) r_1 subject[e_1,s_2) ... r_k subject[e_k,length).
C3_ResultIsSplice ==
  (ReturnedString /\ MatchesFound # <<>>) =>
    /\ Len(Substs) = Len(MatchesFound)
    /\ BoundsFromExec
    /\ ret_value.value.s = Spliced(this_arg.s, MatchesFound, Substs, 0)

C3_Witness ==
  /\ ReturnedString
  /\ this_arg = StrV(<<A, B>>)
  /\ Len(MatchesFound) = 3
  /\ ret_value.value.s = <<LIT_CHAR_LOWERCASE_X, A, LIT_CHAR_LOWERCASE_X, B, LIT_CHAR_LOWERCASE_X>>

\* the string a value returned by the replacement function stands for
ReturnedText(v) == IF v.t = "number" THEN <<LIT_CHAR_0 + v.n>> ELSE v.s

\* C7: the replacement function is called once for every match, straight
\* after it is found, with the entries of the match, the match start and the
\* subject (entries + 2 arguments); the string of the value returned is the
\* text substituted; a throw of the call or of the coercion is the result.
C7_CallablePerMatch ==
  \A i \in 1..Len(log) :
    /\ log[i].e = "call" =>
         /\ i > 1
         /\ log[i - 1].e \in {"exec", "search"}
         /\ ~log[i - 1].thrown
         /\ log[i - 1].v # Null
         /\ log[i].args = log[i - 1].v.elems
                          \o <<NumV(log[i - 1].start), StrV(this_arg.s)>>
         /\ Len(log[i].args) = Len(log[i - 1].v.elems) + 2
         /\ (log[i - 1].e = "exec" => log[i - 1].start = log[i - 1].v.index)
    /\ (log[i].e \in {"exec", "search"} /\ ~log[i].thrown /\ log[i].v # Null
        /\ ecma_op_is_callable(replace_value)) =>
         IF i < Len(log) THEN log[i + 1].e = "call" ELSE pc \in {"get_string", "fatal"}
    /\ log[i].e \in {"return", "throw", "cb_write"} =>
         i > 1 /\ log[i - 1].e \in {"call", "cb_write"}
    /\ (log[i].e = "return" /\ ~log[i].thrown) =>
         /\ i < Len(log)
         /\ log[i + 1].e = "subst"
         /\ log[i + 1].v = StrV(ReturnedText(log[i].v))
    /\ (log[i].e = "return" /\ log[i].thrown) =>
         /\ i = Len(log)
         /\ pc = "done"
         /\ ret_value = ThrowCompletion("to_string_result")
    /\ log[i].e = "throw" =>
         /\ i = Len(log)
         /\ pc = "done"
         /\ ret_value = ThrowCompletion("call")

C7_Witness ==
  /\ ReturnedString
  /\ Len(LogOf("call")) = 2
  /\ \E i \in 1..Len(log) : log[i].e = "call" /\ Len(log[i].args) = 4
  /\ \E i \in 1..Len(log) : log[i].e = "return" /\ log[i].v = NumV(7)

\* C8: a string pattern or a regexp that is not global is looked for once
\* and substituted at most once, after which replace returns; a string
\* pattern is found at the least offset at which it occurs in the subject,
\* its end being the start plus its length (an empty one at [0,0)).
C8_SingleSubstitution ==
  /\ (~(IsRegExpObject(search_value) /\ regexp.global)) =>
       /\ Len(Finds) <= 1
       /\ Len(Substs) <= 1
       /\ Len(Substs) = 1 => pc = "done"
  /\ \A i \in 1..Len(log) :
       log[i].e = "search" =>
         IF PatternOccurs(this_arg.s)
           THEN /\ log[i].v = ArrayObj(<<search_value>>)
                /\ IsPrefixAt(search_value.s, this_arg.s, log[i].start)
                /\ \A j \in 0..(log[i].start - 1) : ~IsPrefixAt(search_value.s, this_arg.s, j)
                /\ log[i].end = log[i].start + Len(search_value.s)
                /\ (search_value.s = <<>> => log[i].start = 0 /\ log[i].end = 0)
           ELSE log[i].v = Null

C8_Witness ==
  /\ pc = "done"
  /\ Len(Substs) = 1
  /\ \E i \in 1..Len(log) :
       log[i].e = "search" /\ log[i].start = 1 /\ log[i].end = 2
  /\ this_arg = StrV(<<A, B>>)
  /\ search_value = StrV(<<B>>)

(* ------------------ properties of the template scan -------------------- *)

Digits09 == LIT_CHAR_0..LIT_CHAR_9
Digits19 == LIT_CHAR_1..LIT_CHAR_9

\* no character of s is in bad
Avoids(s, bad) == \A k \in 1..Len(s) : s[k] \notin bad

\* entry k of a match as a string: nothing when missing or undefined
GroupText(elems, k) ==
  IF k < Len(elems) /\ elems[k + 1] # Undefined THEN elems[k + 1].s ELSE <<>>

\* The template from position i (1-based) on, expanded as the specification
\* words it: `$$` is `$`, `$` grave is the subject before the match, `$'` the
\* subject after it, `$n` and `$nn` are groups (two digits only when that
\* group exists), any other character stands for itself.  m is the find step.
RECURSIVE ExpandAsSpecified(_, _, _, _)
ExpandAsSpecified(tpl, i, subject, m) ==
  IF i > Len(tpl) THEN <<>>
  ELSE IF tpl[i] # LIT_CHAR_DOLLAR_SIGN \/ i = Len(tpl)
    THEN <<tpl[i]>> \o ExpandAsSpecified(tpl, i + 1, subject, m)
  ELSE IF tpl[i + 1] = LIT_CHAR_DOLLAR_SIGN
    THEN <<LIT_CHAR_DOLLAR_SIGN>> \o ExpandAsSpecified(tpl, i + 2, subject, m)
  ELSE IF tpl[i + 1] = LIT_CHAR_GRAVE_ACCENT
    THEN SubSeq(subject, 1, m.start) \o ExpandAsSpecified(tpl, i + 2, subject, m)
  ELSE IF tpl[i + 1] = LIT_CHAR_SINGLE_QUOTE
    THEN SubSeq(subject, m.end + 1, Len(subject)) \o ExpandAsSpecified(tpl, i + 2, subject, m)
  ELSE IF tpl[i + 1] \in Digits19
    THEN (IF i + 2 <= Len(tpl) /\ tpl[i + 2] \in Digits09
             /\ (tpl[i + 1] - LIT_CHAR_0) * 10 + (tpl[i + 2] - LIT_CHAR_0) < Len(m.v.elems)
            THEN GroupText(m.v.elems, (tpl[i + 1] - LIT_CHAR_0) * 10 + (tpl[i + 2] - LIT_CHAR_0))
                 \o ExpandAsSpecified(tpl, i + 3, subject, m)
            ELSE GroupText(m.v.elems, tpl[i + 1] - LIT_CHAR_0)
                 \o ExpandAsSpecified(tpl, i + 2, subject, m))
  ELSE <<tpl[i]>> \o ExpandAsSpecified(tpl, i + 1, subject, m)

\* the log entries of template expansions: entry i - 1 is the find step
IsExpansion(i) == log[i].e = "template"

\* C4: a template without digits and `&` always expands, and to the text in
\* which `$$` is one `$`, `$` grave the subject before the match, `$'` the
\* subject after it, and every other character itself, in order.
C4_DollarPrefixSuffix ==
  \A i \in 1..Len(log) :
    (IsExpansion(i) /\ Avoids(replace_value.s, Digits09 \cup {LIT_CHAR_AMPERSAND})) =>
      /\ log[i].status = "normal"
      /\ log[i].v.s = ExpandAsSpecified(replace_value.s, 1, this_arg.s, log[i - 1])

C4_Witness ==
  /\ pc = "done"
  /\ Len(log) > 1
  /\ IsExpansion(Len(log) - 1)
  /\ log[Len(log) - 1].status = "normal"
  /\ Len(replace_value.s) = 8
  /\ log[Len(log) - 2].start = 1
  /\ log[Len(log) - 2].end = 2
  /\ ret_value = NormalCompletion(StrV(<<B, A, LIT_CHAR_DOLLAR_SIGN, B, B, A, B>>))

\* the template has no `$0`
NoDollarZero(tpl) ==
  \A k \in 1..(Len(tpl) - 1) : ~(tpl[k] = LIT_CHAR_DOLLAR_SIGN /\ tpl[k + 1] = LIT_CHAR_0)

\* C5 as the specification states it: whenever a template (without `&` and
\* `$0`) expands, it expands to the text in which `$n` is group n, `$nn` group
\* nn only when that group exists (the second digit standing for itself
\* otherwise), and a group that took no part is empty.
C5_GroupReferencesAsStated ==
  \A i \in 1..Len(log) :
    (IsExpansion(i) /\ log[i].status = "normal"
     /\ Avoids(replace_value.s, {LIT_CHAR_AMPERSAND}) /\ NoDollarZero(replace_value.s)) =>
      log[i].v.s = ExpandAsSpecified(replace_value.s, 1, this_arg.s, log[i - 1])

\* every `$` of tpl is its last character or stands before a character that
\* is not in special; a `$0` counts when zero is TRUE and no digit 1..9 follows
DollarsStandAlone(tpl, special, zero) ==
  \A k \in 1..Len(tpl) :
    tpl[k] = LIT_CHAR_DOLLAR_SIGN =>
      \/ k = Len(tpl)
      \/ tpl[k + 1] \notin special
      \/ /\ zero
         /\ tpl[k + 1] = LIT_CHAR_0
         /\ k + 2 <= Len(tpl)
         /\ tpl[k + 2] \notin Digits19

\* C6, amended: when every `$` of the template is its last character, or is
\* followed by a character other than `$`, `&`, grave, `'` and the digits, or
\* by a 0 and then a character that is not a digit 1..9, the template expands
\* to itself.
C6_OtherDollarsLiteral ==
  \A i \in 1..Len(log) :
    (IsExpansion(i)
     /\ DollarsStandAlone(replace_value.s,
                          {LIT_CHAR_DOLLAR_SIGN, LIT_CHAR_AMPERSAND, LIT_CHAR_GRAVE_ACCENT,
                           LIT_CHAR_SINGLE_QUOTE} \cup Digits09, TRUE)) =>
      /\ log[i].status = "normal"
      /\ log[i].v.s = replace_value.s

C6_Witness ==
  /\ pc = "done"
  /\ replace_value = StrV(<<LIT_CHAR_DOLLAR_SIGN, LIT_CHAR_LOWERCASE_A, LIT_CHAR_DOLLAR_SIGN>>)
  /\ ret_value = NormalCompletion(StrV(<<B, LIT_CHAR_DOLLAR_SIGN, LIT_CHAR_LOWERCASE_A,
                                         LIT_CHAR_DOLLAR_SIGN, B>>))

\* C6 as the specification states it: whenever the template expands, a
\* template whose every `$` is last or followed by a character other than
\* `$`, grave, `'` and the digits 1..9 expands to itself.
C6_OtherDollarsLiteralAsStated ==
  \A i \in 1..Len(log) :
    (IsExpansion(i) /\ log[i].status = "normal"
     /\ DollarsStandAlone(replace_value.s,
                          {LIT_CHAR_DOLLAR_SIGN, LIT_CHAR_GRAVE_ACCENT, LIT_CHAR_SINGLE_QUOTE}
                          \cup Digits19, FALSE)) =>
      log[i].v.s = replace_value.s

(* ------------------------- properties of match ------------------------- *)

\* the execs of the match loop, and those that found a match
MatchExecs == LogOf("exec")
MatchHits == SelectSeq(MatchExecs, LAMBDA x : ~x.thrown /\ x.v # Null)

GlobalMatch == IsRegExpObject(search_value) /\ regexp.global

\* C9: a global match returns null exactly when no exec found a match, and
\* otherwise the array of the whole-match strings of the execs that found
\* one, in the order they ran.
C9_GlobalMatchResult ==
  (GlobalMatch /\ pc = "done" /\ ret_value.type = "normal") =>
    /\ (ret_value.value = Null) <=> (MatchHits = <<>>)
    /\ MatchHits # <<>> =>
         ret_value.value = ArrayObj([i \in 1..Len(MatchHits) |-> MatchHits[i].v.elems[1]])

C9_Witness ==
  /\ GlobalMatch
  /\ pc = "done"
  /\ ret_value = NormalCompletion(ArrayObj(<<StrV(<<A>>), StrV(<<B>>)>>))

\* C10: in a global match the first exec starts from lastIndex 0, every exec
\* that finds a match leaves lastIndex greater than it was when the exec
\* started (one past the match index when the match is empty, the end of the
\* match otherwise), and at most n+2 execs run on a subject of length n.
C10_GlobalMatchProgress ==
  (GlobalMatch /\ MatchExecs # <<>>) =>
    /\ MatchExecs[1].from = 0
    /\ \A i \in 1..Len(MatchExecs) :
         (~MatchExecs[i].thrown /\ MatchExecs[i].v # Null) =>
           /\ MatchExecs[i].from < MatchExecs[i].to
           /\ MatchExecs[i].to =
                IF MatchExecs[i].v.elems[1].s = <<>>
                  THEN MatchExecs[i].v.index + 1
                  ELSE MatchExecs[i].v.index + Len(MatchExecs[i].v.elems[1].s)
    /\ \A i \in 2..Len(MatchExecs) : MatchExecs[i].from = MatchExecs[i - 1].to
    /\ Len(MatchExecs) <= Len(this_arg.s) + 2

C10_Witness ==
  /\ GlobalMatch
  /\ pc = "done"
  /\ this_arg = StrV(<<A, B>>)
  /\ regexp.alts = PatEmpty
  /\ Len(MatchExecs) = 4
  /\ ret_value = NormalCompletion(ArrayObj(<<StrV(<<>>), StrV(<<>>), StrV(<<>>)>>))

(* ------------------------- properties of search ------------------------ *)

\* the least offset at which one of the alternatives matches s, or -1
FirstOffset(alts, s) ==
  IF \E i \in 0..Len(s) : \E k \in 1..Len(alts) : IsPrefixAt(FlattenSeq(alts[k]), s, i)
    THEN Least({i \in 0..Len(s) : \E k \in 1..Len(alts) : IsPrefixAt(FlattenSeq(alts[k]), s, i)})
    ELSE -1

\* C11: search runs one exec whatever the global flag is, returns the least
\* offset of a match or -1, and leaves lastIndex as it was; an argument that
\* is no regexp is made into one first, and a throw of the constructor is
\* returned without an exec.
C11_SearchOneExec ==
  (pc = "done" /\ ecma_is_value_string(this_arg)) =>
    IF search_value = ThrowingObj
      THEN ret_value = ThrowCompletion("construct") /\ LogOf("exec") = <<>>
      ELSE /\ Len(LogOf("exec")) = 1
           /\ LogOf("exec")[1].from = LogOf("exec")[1].to
           /\ regexp.lastIndex = LogOf("exec")[1].from
           /\ ret_value = NormalCompletion(NumV(FirstOffset(regexp.alts, this_arg.s)))
           /\ (search_value = Undefined => LogOf("construct") # <<>> /\ regexp.alts = PatEmpty)

C11_Witness ==
  /\ pc = "done"
  /\ search_value = RegExpObj
  /\ regexp.global
  /\ regexp.lastIndex = 1
  /\ regexp.alts = PatA
  /\ this_arg = StrV(<<B, A>>)
  /\ ret_value = NormalCompletion(NumV(1))

(* ------------------------ properties of indexOf ------------------------ *)

\* the routine that was called
Called(where) == log # <<>> /\ log[1].e = where

\* indexOf returned a number for a string subject and a string to look for
IndexOfReturned ==
  /\ pc = "done"
  /\ Called("index_of_call")
  /\ LogOf("to_number_arg2") # <<>>
  /\ ret_value.type = "normal"

\* the start position of the call
IndexOfStart ==
  normalize_relative_index(ecma_op_to_number(replace_value, "to_number_arg2").value,
                           Len(this_arg.s))

\* the anchors from start on at which the string looked for occurs
IndexOfAnchors ==
  {i \in IndexOfStart..(Len(this_arg.s) - Len(search_value.s)) :
     \A k \in 1..Len(search_value.s) : this_arg.s[i + k] = search_value.s[k]}

\* C12: for a non-empty string to look for, indexOf returns the least anchor
\* from start on at which it occurs code unit by code unit, -1 when there is
\* none, and -1 when it is longer than the subject.
C12_IndexOfLeastAnchor ==
  (IndexOfReturned /\ search_value.s # <<>>) =>
    ret_value.value =
      NumV(IF IndexOfAnchors = {} THEN -1 ELSE Least(IndexOfAnchors))

C12_Witness ==
  /\ IndexOfReturned
  /\ this_arg = StrV(<<A, B, B>>)
  /\ search_value = StrV(<<B>>)
  /\ replace_value = NumV(2)
  /\ ret_value.value = NumV(2)

\* C13: for the empty string to look for, indexOf returns the normalised
\* start position, whatever it is, and not a constant.
C13_EmptySearchReturnsStart ==
  (IndexOfReturned /\ search_value.s = <<>>) =>
    ret_value.value = NumV(IndexOfStart)

(* ------------------------- properties of slice ------------------------- *)

\* slice returned for a string subject, an integer start and an end that is
\* an integer or undefined
SliceReturned ==
  /\ pc = "done"
  /\ Called("slice_call")
  /\ ecma_is_value_string(this_arg)
  /\ search_value.t = "number"
  /\ replace_value.t \in {"number", "undefined"}

\* clamp of the slice law: a negative index counts from the end
Clamp(k, len) ==
  IF k < 0 THEN (IF len + k > 0 THEN len + k ELSE 0)
  ELSE IF k < len THEN k ELSE len

\* the clamped start and end of the call
SliceFrom == Clamp(search_value.n, Len(this_arg.s))
SliceTo ==
  IF replace_value.t = "undefined" THEN Len(this_arg.s)
  ELSE Clamp(replace_value.n, Len(this_arg.s))

\* C20: slice(s, a, b) is the part of s from clamp(a) up to clamp(b), the
\* indices in the order given and an undefined b taken as the length, so its
\* length is max(clamp(b) - clamp(a), 0).
C20_SliceLength ==
  SliceReturned =>
    /\ ret_value = NormalCompletion(StrV(SubSeq(this_arg.s, SliceFrom + 1, SliceTo)))
    /\ Len(ret_value.value.s) = (IF SliceTo > SliceFrom THEN SliceTo - SliceFrom ELSE 0)

C20_Witness ==
  /\ SliceReturned
  /\ this_arg = StrV(<<A, B, B>>)
  /\ search_value = NumV(2)
  /\ replace_value = NumV(-2)
  /\ ret_value = NormalCompletion(StrV(<<>>))

(* -------------------------- properties of trim ------------------------- *)

\* a code unit that trim removes
IsTrimUnit(c) == lit_char_is_white_space(c) \/ lit_char_is_line_terminator(c)

\* the number of code units of s, from the front, that trim removes
RECURSIVE LeadingRun(_)
LeadingRun(s) ==
  IF s # <<>> /\ IsTrimUnit(s[1]) THEN 1 + LeadingRun(Tail(s)) ELSE 0

\* s back to front
RECURSIVE Reversed(_)
Reversed(s) == IF s = <<>> THEN <<>> ELSE Append(Reversed(Tail(s)), s[1])

\* s without its leading and trailing runs of such code units
Trimmed(s) ==
  IF LeadingRun(s) = Len(s) THEN <<>>
  ELSE SubSeq(s, LeadingRun(s) + 1, Len(s) - LeadingRun(Reversed(s)))

\* the call of trim on a string has ended
TrimEnded ==
  /\ pc \in {"done", "fatal", "ub"}
  /\ Called("trim_call")
  /\ ecma_is_value_string(this_arg)

\* C18: for every string s, also one with code units of more than one byte,
\* trim(s) is the part of s between its leading and trailing runs of white
\* space and line terminators, so it neither begins nor ends with one, and
\* trimming it again changes nothing.
C18_TrimAsStated ==
  TrimEnded =>
    /\ pc = "done"
    /\ ret_value = NormalCompletion(StrV(Trimmed(this_arg.s)))
    /\ (ret_value.value.s # <<>> =>
          ~IsTrimUnit(Head(ret_value.value.s))
          /\ ~IsTrimUnit(ret_value.value.s[Len(ret_value.value.s)]))
    /\ Trimmed(ret_value.value.s) = ret_value.value.s

\* trim of a string of code units of one byte each is as C18 states
TrimSingleByte ==
  (TrimEnded /\ \A i \in 1..Len(this_arg.s) : this_arg.s[i] < 128) =>
    /\ pc = "done"
    /\ ret_value = NormalCompletion(StrV(Trimmed(this_arg.s)))

(* -------------------- properties of case conversion -------------------- *)

\* a conversion of a string has ended; lower tells the direction
ConversionEnded ==
  /\ pc \in {"done", "fatal", "ub"}
  /\ log # <<>> /\ log[1].e \in LowerCaseCalls \cup UpperCaseCalls
  /\ ecma_is_value_string(this_arg)

\* the conversion of s as specified: a high surrogate with the low surrogate
\* after it is kept, any other code unit is mapped
RECURSIVE ConvertedString(_, _)
ConvertedString(s, lower_case) ==
  IF s = <<>> THEN <<>>
  ELSE IF Len(s) >= 2 /\ lit_is_code_unit_high_surrogate(s[1])
          /\ lit_is_code_unit_low_surrogate(s[2])
    THEN <<s[1], s[2]>> \o ConvertedString(SubSeq(s, 3, Len(s)), lower_case)
    ELSE (IF lower_case THEN lit_char_to_lower_case(s[1]) ELSE lit_char_to_upper_case(s[1]))
         \o ConvertedString(Tail(s), lower_case)

\* C19: case conversion returns for every string; converting the result
\* again gives the same result, also where a code unit is mapped to several;
\* the locale entry gives what the plain entry gives.
C19_ConversionIdempotent ==
  ConversionEnded =>
    /\ pc = "done"
    /\ ret_value.type = "normal"
    /\ ret_value.value.s = ConvertedString(this_arg.s, log[1].e \in LowerCaseCalls)
    /\ ConvertedString(ret_value.value.s, log[1].e \in LowerCaseCalls) = ret_value.value.s

\* conversion of a string that does not end in a high surrogate is as C19 states
ConversionNoLastSurrogate ==
  (ConversionEnded
     /\ (this_arg.s = <<>>
           \/ ~lit_is_code_unit_high_surrogate(this_arg.s[Len(this_arg.s)]))) =>
    /\ pc = "done"
    /\ ret_value.type = "normal"
    /\ ret_value.value.s = ConvertedString(this_arg.s, log[1].e \in LowerCaseCalls)
    /\ ConvertedString(ret_value.value.s, log[1].e \in LowerCaseCalls) = ret_value.value.s

(* ----------------------- properties of every routine ------------------- *)

\* C14: a routine that returns, returns a normal completion with a value or
\* a throw completion; the empty completion, with which each routine starts,
\* is never what is returned.
C14_NeverReturnsEmpty ==
  pc = "done" =>
    /\ ret_value.type \in {"normal", "throw"}
    /\ ~ecma_is_completion_value_empty(ret_value)

C14_Witness ==
  /\ pc = "done"
  /\ search_value = RegExpObj
  /\ regexp.global
  /\ MatchExecs # <<>>
  /\ ret_value = NormalCompletion(Null)

\* the steps of the log that can throw
FallibleSteps ==
  {"check_coercible", "to_string_this", "to_string_search", "to_string_replace",
   "to_number_arg1", "to_number_arg2", "construct", "put_lastIndex", "exec", "return",
   "throw", "template"} \cup ArgTagSet

Fallible == SelectSeq(log, LAMBDA x : x.e \in FallibleSteps)

\* the error a step of the log throws
ThrownBy(e) ==
  CASE e = "check_coercible" -> "coercible"
    [] e = "throw" -> "call"
    [] e = "return" -> "to_string_result"
    [] e = "template" -> "get_submatch"
    [] OTHER -> e

\* C15: the fallible steps of a routine run in a fixed order, the check that
\* this is coercible first and ToString of this second; when a step throws,
\* no later fallible step is made and the routine returns that throw.
C15_ThrowEndsRoutine ==
  /\ \A i \in 1..Len(Fallible) :
       /\ (Fallible[i].e = "check_coercible" <=> i = 1)
       /\ (Fallible[i].e = "to_string_this" <=> i = 2)
       /\ (Fallible[i].thrown =>
             /\ i = Len(Fallible)
             /\ pc = "done"
             /\ ret_value = ThrowCompletion(ThrownBy(Fallible[i].e)))
  /\ (pc = "done" /\ ret_value.type = "throw") =>
       \/ Fallible # <<>> /\ Fallible[Len(Fallible)].thrown
       \/ (Called("to_string_call") \/ Called("value_of_call")) /\ Fallible = <<>>


C15_Witness ==
  /\ pc = "done"
  /\ Called("concat_call")
  /\ ecma_is_value_string(this_arg)
  /\ search_value.elems = <<StrV(<<A>>), ThrowingObj, StrV(<<A>>)>>
  /\ ret_value = ThrowCompletion("to_string_arg2")
  /\ LogOf("to_string_arg1") # <<>>
  /\ LogOf("to_string_arg3") = <<>>

\* the entries of the routines that make no calls
RoutineCalls ==
  {"index_of_call", "to_string_call", "value_of_call", "char_at_call", "char_code_at_call",
   "locale_compare_call", "concat_call", "slice_call", "substring_call", "trim_call",
   "last_index_of_call", "split_call"}
  \cup LowerCaseCalls \cup UpperCaseCalls

\* the steps a call has made
Steps == SelectSeq(log, LAMBDA x : x.e \notin RoutineCalls)

C16_TemplateStringsReleased ==
  pc = "done" =>
    \A i \in 1..Len(log) : log[i].e = "template" => log[i].held = 0

\* a substitution that ended normally holds no string
TemplateNormalReleased ==
  \A i \in 1..Len(log) :
    (log[i].e = "template" /\ log[i].status = "normal") => log[i].held = 0

(* ----------------------- properties of substring ----------------------- *)

\* the call of substring on a string with positions that are integers or
\* undefined has ended
SubstringEnded ==
  /\ pc \in {"done", "fatal"}
  /\ Called("substring_call")
  /\ ecma_is_value_string(this_arg)
  /\ search_value.t \in {"number", "undefined"}
  /\ replace_value.t \in {"number", "undefined"}

\* the normalised index of a position of substring: an undefined start is
\* NaN and so 0, an undefined end is the length
SubstringIndex(v, len, isEnd) ==
  IF v.t = "undefined" THEN (IF isEnd THEN len ELSE 0)
  ELSE normalize_relative_index(v, len)

\* the part of s between the lesser and the greater of x and y
Between(s, x, y) ==
  SubSeq(s, (IF x < y THEN x ELSE y) + 1, IF x < y THEN y ELSE x)

\* C21: substring returns the part of the subject between the lesser and the
\* greater of its two normalised indices, both of which are within the
\* string when it is taken, so exchanging two given indices gives the same.
C21_SubstringSymmetric ==
  SubstringEnded =>
    /\ pc = "done"
    /\ SubstringIndex(search_value, Len(this_arg.s), FALSE) <= Len(this_arg.s)
    /\ SubstringIndex(replace_value, Len(this_arg.s), TRUE) <= Len(this_arg.s)
    /\ ret_value = NormalCompletion(StrV(
         Between(this_arg.s, SubstringIndex(search_value, Len(this_arg.s), FALSE),
                 SubstringIndex(replace_value, Len(this_arg.s), TRUE))))
    /\ (search_value.t = "number" /\ replace_value.t = "number") =>
         ret_value.value.s =
           Between(this_arg.s, SubstringIndex(replace_value, Len(this_arg.s), FALSE),
                   SubstringIndex(search_value, Len(this_arg.s), TRUE))

C21_Witness ==
  /\ SubstringEnded
  /\ this_arg = StrV(<<A, B, B>>)
  /\ search_value = NumV(2)
  /\ replace_value = NumV(0)
  /\ ret_value = NormalCompletion(StrV(<<A, B>>))

(* ------------------ properties of charAt and charCodeAt ---------------- *)

\* charAt or charCodeAt returned for a string and a position that is an
\* integer or, being undefined, NaN
CharRoutineReturned ==
  /\ pc = "done"
  /\ (Called("char_at_call") \/ Called("char_code_at_call"))
  /\ ecma_is_value_string(this_arg)
  /\ search_value.t \in {"number", "undefined"}

\* the position of the call, NaN counted as 0
CharPosition == IF search_value.t = "number" THEN search_value.n ELSE 0

\* the code unit of the subject at the position, as a string; empty when the
\* position is not within the subject
CharAsStated ==
  IF 0 <= CharPosition /\ CharPosition < Len(this_arg.s)
    THEN <<this_arg.s[CharPosition + 1]>>
    ELSE <<>>

\* C22: charAt returns the code unit at the position as a string, or the
\* empty string when the position is not within the subject; charCodeAt
\* returns NaN exactly where charAt returns the empty string and the number
\* of that code unit otherwise; a position that is NaN counts as 0.
C22_CharAtAndCode ==
  CharRoutineReturned =>
    /\ Called("char_at_call") =>
         ret_value = NormalCompletion(StrV(CharAsStated))
    /\ Called("char_code_at_call") =>
         /\ (ret_value = NormalCompletion(NaNV) <=> CharAsStated = <<>>)
         /\ (CharAsStated # <<>> => ret_value = NormalCompletion(NumV(CharAsStated[1])))
         /\ (CharAtIndex(this_arg.s, ecma_op_to_number(search_value, "to_number_arg1").value) = <<>>
               <=> ret_value = NormalCompletion(NaNV))

C22_Witness ==
  /\ CharRoutineReturned
  /\ Called("char_code_at_call")
  /\ this_arg = StrV(<<A, B>>)
  /\ search_value = Undefined
  /\ ret_value = NormalCompletion(NumV(A))

(* ------------------------- properties of concat ------------------------ *)

\* concat ended for a string subject
ConcatReturned ==
  /\ pc = "done"
  /\ Called("concat_call")
  /\ ecma_is_value_string(this_arg)

\* the arguments that cannot be turned into a string
ConcatThrowers ==
  {k \in 1..Len(search_value.elems) :
     ecma_is_completion_value_throw(ecma_op_to_string(search_value.elems[k], "any"))}

\* the number of arguments that are coerced: up to the first that throws
ConcatCoerced ==
  IF ConcatThrowers = {} THEN Len(search_value.elems) ELSE Least(ConcatThrowers)

\* s followed by the strings of the first j values of list
RECURSIVE ConcatOf(_, _, _)
ConcatOf(s, list, j) ==
  IF j = 0 THEN s
  ELSE ConcatOf(s, list, j - 1) \o ecma_op_to_string(list[j], "any").value.s

\* the coercions of arguments made, and the strings released
ConcatCoercions == SelectSeq(log, LAMBDA x : x.e \in ArgTagSet)
ConcatReleases == LogOf("deref")

\* C23: concat coerces its arguments from left to right; when none throws it
\* returns the string of this followed by their strings in order; when
\* argument k throws, no later argument is coerced, the string built from
\* this and the arguments before k is released once, and that throw is
\* returned.
C23_ConcatInOrder ==
  ConcatReturned =>
    /\ Len(ConcatCoercions) = ConcatCoerced
    /\ \A i \in 1..Len(ConcatCoercions) :
         ConcatCoercions[i].e = ArgTag(i - 1) /\ ConcatCoercions[i].v = search_value.elems[i]
    /\ IF ConcatThrowers = {}
         THEN /\ ret_value = NormalCompletion(StrV(
                   ConcatOf(this_arg.s, search_value.elems, Len(search_value.elems))))
              /\ ConcatReleases = <<>>
         ELSE /\ ret_value = ThrowCompletion(ArgTag(ConcatCoerced - 1))
              /\ Len(ConcatReleases) = 1
              /\ ConcatReleases[1].v =
                   StrV(ConcatOf(this_arg.s, search_value.elems, ConcatCoerced - 1))

C23_Witness ==
  /\ ConcatReturned
  /\ this_arg = StrV(<<B>>)
  /\ search_value.elems = <<StrV(<<A>>), ThrowingObj, StrV(<<A>>)>>
  /\ ret_value = ThrowCompletion("to_string_arg2")
  /\ ConcatReleases = <<Ev("deref", StrV(<<B, A>>), EmptyCompletion)>>

(* --------------------- properties of localeCompare --------------------- *)

\* localeCompare returned for two strings
LocaleCompareReturned ==
  /\ pc = "done"
  /\ Called("locale_compare_call")
  /\ ecma_is_value_string(this_arg)
  /\ ecma_is_value_string(search_value)

\* a is before b in the order of the code units: a is a proper prefix of b,
\* or at the first place where they differ a has the lesser code unit
Before(a, b) ==
  \E k \in 0..Len(a) :
    /\ k <= Len(b)
    /\ SubSeq(a, 1, k) = SubSeq(b, 1, k)
    /\ \/ k = Len(a) /\ k < Len(b)
       \/ k < Len(a) /\ k < Len(b) /\ a[k + 1] < b[k + 1]

\* C24: localeCompare(a, b) is -1 when a is before b in the order of the
\* code units, 1 when b is before a, and 0 exactly when they are equal, so
\* that localeCompare(a, b) = -localeCompare(b, a).
C24_LocaleCompareOrdinal ==
  LocaleCompareReturned =>
    /\ ret_value.type = "normal"
    /\ ret_value.value.n \in {-1, 0, 1}
    /\ (ret_value.value.n = -1 <=> Before(this_arg.s, search_value.s))
    /\ (ret_value.value.n = 1 <=> Before(search_value.s, this_arg.s))
    /\ (ret_value.value.n = 0 <=> this_arg.s = search_value.s)
    /\ ret_value.value.n = 0 - LocaleCompareResult(search_value.s, this_arg.s)

C24_Witness ==
  /\ LocaleCompareReturned
  /\ this_arg = StrV(<<A, B>>)
  /\ search_value = StrV(<<A>>)
  /\ ret_value = NormalCompletion(NumV(1))

(* ------------------ properties of toString and valueOf ----------------- *)

\* toString or valueOf returned
ToStringReturned ==
  /\ pc = "done"
  /\ (Called("to_string_call") \/ Called("value_of_call"))

\* C25: toString and valueOf alike return a string this as it is and the
\* primitive string of an object of class String; for any other this,
\* undefined, null, a number or another object, they return a TypeError;
\* they make no coercion.
C25_ToStringValueOf ==
  ToStringReturned =>
    /\ Steps = <<>>
    /\ ecma_is_value_string(this_arg) => ret_value = NormalCompletion(this_arg)
    /\ (this_arg.t = "object" /\ this_arg.class = "String") =>
         ret_value = NormalCompletion(StrV(this_arg.s))
    /\ (~ecma_is_value_string(this_arg)
          /\ ~(this_arg.t = "object" /\ this_arg.class = "String")) =>
         ret_value = ThrowCompletion("type")

C25_Witness ==
  /\ ToStringReturned
  /\ Called("value_of_call")
  /\ this_arg = NumV(1)
  /\ ret_value = ThrowCompletion("type")

(* ------------------- properties of the match bounds -------------------- *)

\* the last find step reported a match
LastFindMatched ==
  /\ Finds # <<>>
  /\ ~Finds[Len(Finds)].thrown
  /\ ~ecma_is_value_null(Finds[Len(Finds)].v)

\* the last find step reported no match
LastFindNull ==
  /\ Finds # <<>>
  /\ ~Finds[Len(Finds)].thrown
  /\ ecma_is_value_null(Finds[Len(Finds)].v)

\* C26: in every state of a replace after a find step that reported a match
\* the bounds of the context satisfy 0 <= match_start <= match_end <=
\* input_length; after a find step that reported no match both bounds are 0
C26_MatchBounds ==
  /\ LastFindMatched =>
       /\ 0 <= context.match_start
       /\ context.match_start <= context.match_end
       /\ context.match_end <= context.input_length
       /\ context.input_length = ecma_string_get_length(context.input_string)
  /\ LastFindNull => (context.match_start = 0 /\ context.match_end = 0)

\* a match in the middle of the input is being replaced, after an earlier one
C26_Witness ==
  /\ LastFindMatched
  /\ Len(Finds) = 2
  /\ context.match_start = 1
  /\ context.match_end = 2
  /\ pc = "get_string"

(* ------------------ properties of the order of matches ----------------- *)

\* a global replace with a callable replacement is under way or has ended
GlobalCallable ==
  /\ Finds # <<>>
  /\ IsRegExpObject(search_value)
  /\ log[3].e = "get_global"
  /\ Len(log) > 3 /\ log[4].e = "put_lastIndex"
  /\ ecma_op_is_callable(replace_value)

\* C27: in a global replace with a callable replacement, whatever the
\* function does, every match starts at or after the end of the previous
\* match (the cursor), and the assertions of the append of the input between
\* the cursor and the match (lines 785-786) never fail
C27_LeftToRight ==
  GlobalCallable =>
    /\ pc # "fatal"
    /\ (LastFindMatched /\ pc \in {"get_string", "callback"}) =>
         /\ previous_start <= context.match_start
         /\ context.match_start <= context.input_length

(* --------------- properties of replace called from replace ------------- *)

\* the replace called by a replacement function has just returned
NestedReturned ==
  /\ Len(log) > 1
  /\ log[Len(log)].e = "leave"
  /\ log[Len(log) - 1].e = "enter"

\* a suspended call still holds what it held when it was suspended
FrameKept(frame) ==
  /\ frame.log[Len(frame.log)].e = "enter"
  /\ NestedLocals(frame, Held) = frame.log[Len(frame.log)].held

\* C28: the state of a replace call is private to it: while a replace
\* started from its replacement function runs, and when that replace has
\* returned, every field of the context of the outer call, its cursor and
\* the string it has built are what they were when the function was called
C28_ContextPrivate ==
  /\ \A i \in 1..Len(frames) : FrameKept(frames[i])
  /\ NestedReturned => Held = log[Len(log) - 1].held

\* a nested replace that found matches of its own has returned into an outer
\* replace that is past its first match
C28_Witness ==
  /\ NestedReturned
  /\ ~log[Len(log)].thrown
  /\ log[Len(log)].v = StrV(<<LIT_CHAR_LOWERCASE_X, LIT_CHAR_LOWERCASE_X>>)
  /\ context.match_start = 1
  /\ context.match_end = 2
  /\ previous_start = 1
  /\ result_string = <<LIT_CHAR_LOWERCASE_X>>
  /\ regexp.lastIndex = 0

(* ---------------- properties of the writes of lastIndex --------------- *)

\* replace has classified its search value: this was coerced to the input
PatternClassified ==
  /\ Len(log) >= 3
  /\ log[1].e = "check_coercible"
  /\ log[2].e = "to_string_this"
  /\ ~log[2].thrown

\* the writes of 0 to lastIndex made by replace
ZeroPuts == SelectSeq(log, LAMBDA x : x.e = "put_lastIndex" /\ x.v = NumV(0))

\* C29: replace writes lastIndex = 0 exactly once, before the replacement is
\* coerced and before the first exec, if and only if the pattern is a regexp
\* whose global flag is true; with a regexp that is not global replace writes
\* lastIndex never, and with a literal pattern it makes no exec, constructs
\* no regexp and neither reads nor writes lastIndex
C29_LastIndexReset ==
  PatternClassified =>
    /\ (IsRegExpObject(search_value) /\ regexp.global) =>
         /\ Len(log) >= 4
         /\ log[4].e = "put_lastIndex" /\ log[4].v = NumV(0)
         /\ Len(ZeroPuts) = 1
         /\ \A i \in 1..Len(log) :
              log[i].e \in {"to_string_replace", "exec", "call"} => i > 4
    /\ (IsRegExpObject(search_value) /\ ~regexp.global) =>
         /\ LogOf("put_lastIndex") = <<>>
         /\ log[3].e = "get_global"
    /\ ~IsRegExpObject(search_value) =>
         /\ \A i \in 1..Len(log) :
              log[i].e \notin {"exec", "construct", "put_lastIndex", "get_global", "cb_write"}
         /\ regexp = NoRegExp
    /\ ZeroPuts # <<>> => (IsRegExpObject(search_value) /\ regexp.global)

\* a global replace with a template has made its one write of 0 and two
\* execs, starting at 0 whatever lastIndex was
C29_Witness ==
  /\ PatternClassified
  /\ pc = "done"
  /\ IsRegExpObject(search_value) /\ regexp.global
  /\ Len(ZeroPuts) = 1
  /\ LogOf("to_string_replace") # <<>>
  /\ Len(LogOf("exec")) >= 2
  /\ LogOf("exec")[1].from = 0

(* ------------------ properties of zero-width matches ------------------- *)

\* the step of the log after step i is none of replace's writes of lastIndex
NoPutAfter(i) == i < Len(log) => log[i + 1].e # "put_lastIndex"

\* nothing after step i is an exec or a write of lastIndex by replace
LoopStoppedAt(i) ==
  \A j \in (i + 1)..Len(log) : log[j].e \notin {"exec", "put_lastIndex"}

\* step i + 1 sets lastIndex to w, and the exec after it, if the write did not
\* throw and the replace has gone on, starts there
BumpedAfter(i, w) ==
  /\ i < Len(log)
  /\ log[i + 1].e = "put_lastIndex"
  /\ log[i + 1].v = NumV(w)
  /\ log[i + 1].thrown => (Len(log) = i + 1 /\ pc = "done")
  /\ (i + 1 < Len(log)) => (log[i + 2].e = "exec" /\ log[i + 2].from = w)

\* C30: in a global replace, once the replacement of a zero-width match is
\* appended, the loop stops with no further exec and no write of lastIndex
\* when the match ends at the end of the input, and otherwise lastIndex is
\* set to match_end + 1 before the next exec; after a match that is not
\* zero-width replace does not write lastIndex
C30_ZeroWidthAdvance ==
  GlobalReplace =>
    \A i \in 1..Len(log) :
      log[i].e = "subst" =>
        /\ (log[i].start = log[i].end /\ log[i].end = context.input_length) =>
             LoopStoppedAt(i)
        /\ (log[i].start = log[i].end /\ log[i].end # context.input_length) =>
             BumpedAfter(i, log[i].end + 1)
        /\ log[i].start # log[i].end => NoPutAfter(i)

\* a replace has replaced a match, a zero-width match inside the input and a
\* zero-width match at its end
C30_Witness ==
  /\ GlobalReplace
  /\ pc = "done"
  /\ Len(Substs) = 3
  /\ Substs[1].start < Substs[1].end
  /\ Substs[2].start = Substs[2].end /\ Substs[2].end < context.input_length
  /\ Substs[3].start = context.input_length
  /\ Len(LogOf("put_lastIndex")) = 2

(* ----------------- properties of the turns of the loop ----------------- *)

\* the find steps, the computations of a replacement and the appends
LoopSteps == SelectSeq(log, LAMBDA x : x.e \in {"exec", "search", "call", "template", "subst"})

\* the string built from subject after the matches ms were replaced by texts
RECURSIVE Built(_, _, _, _)
Built(subject, ms, texts, cursor) ==
  IF ms = <<>> THEN <<>>
  ELSE SubSeq(subject, cursor + 1, Head(ms).start) \o Head(texts).v.s
       \o Built(subject, Tail(ms), Tail(texts), Head(ms).end)

\* C31: in a global replace the steps alternate as exec 1, replacement 1,
\* exec 2, replacement 2, ...: the replacement of match k (the call of the
\* function or the expansion of the template) is computed after exec k has
\* returned and before exec k+1, once per match, and in the string built the
\* text of match k comes before the text of match k+1
C31_StepsAlternate ==
  GlobalReplace =>
    /\ \A i \in 1..Len(LoopSteps) :
         /\ (i % 3 = 1) => LoopSteps[i].e = "exec"
         /\ (i % 3 = 2) =>
              /\ LoopSteps[i].e \in {"call", "template"}
              /\ ~LoopSteps[i - 1].thrown
              /\ ~ecma_is_value_null(LoopSteps[i - 1].v)
         /\ (i % 3 = 0) =>
              /\ LoopSteps[i].e = "subst"
              /\ LoopSteps[i].start = LoopSteps[i - 2].start
              /\ LoopSteps[i].end = LoopSteps[i - 2].end
    /\ Len(Substs) <= Len(MatchesFound)
    /\ Len(MatchesFound) <= Len(Substs) + 1
    /\ (Len(Substs) = Len(MatchesFound) /\ Substs # <<>>) =>
         result_string = Built(context.input_string, MatchesFound, Substs, 0)

\* two matches were replaced by different texts, in their order
C31_Witness ==
  /\ GlobalReplace
  /\ pc = "done"
  /\ Len(Substs) = 2
  /\ Substs[1].v = StrV(<<LIT_CHAR_LOWERCASE_X>>)
  /\ Substs[2].v = StrV(<<LIT_CHAR_0 + 7>>)
  /\ result_string = <<LIT_CHAR_LOWERCASE_X, B, LIT_CHAR_0 + 7>>

(* ------------------- properties of a match, not global ---------------- *)

\* match has ended after it coerced this, with a regexp that is not global
MatchNotGlobalEnded ==
  /\ pc = "done"
  /\ Len(log) >= 3
  /\ log[1].e = "check_coercible"
  /\ log[2].e = "to_string_this" /\ ~log[2].thrown
  /\ LogOf("get_global") # <<>>
  /\ ~regexp.global

\* C32: with a regexp that is not global match makes one exec and returns
\* what it returned, null or the match array, and does not write lastIndex; an
\* argument that is no regexp is first made into one by the constructor, an
\* argument that is a regexp object is used as it is
C32_MatchOnce ==
  /\ MatchNotGlobalEnded =>
       /\ Len(LogOf("exec")) = 1
       /\ log[Len(log)].e = "exec"
       /\ ret_value = ecma_regexp_exec_helper(regexp, this_arg.s, FALSE).completion
       /\ ~ret_value.type = "throw" =>
            (ecma_is_value_null(ret_value.value) \/ ret_value.value = log[Len(log)].v)
       /\ LogOf("put_lastIndex") = <<>>
       /\ regexp.lastIndex = log[Len(log)].from
       /\ log[Len(log)].to = log[Len(log)].from
       /\ IsRegExpObject(search_value) =>
            (LogOf("construct") = <<>> /\ log[3].e = "get_global")
       /\ ~IsRegExpObject(search_value) =>
            (log[3].e = "construct" /\ log[4].e = "get_global"
             /\ regexp = RegExpConstruct(search_value).re)
  /\ (pc = "done" /\ LogOf("construct") # <<>>) => ~IsRegExpObject(search_value)
  /\ (pc = "done" /\ LogOf("construct") # <<>> /\ LogOf("construct")[1].thrown) =>
       (LogOf("exec") = <<>> /\ ret_value = ThrowCompletion("construct"))

\* a regexp object that is not global, with lastIndex 1, matched at the start
C32_Witness ==
  /\ MatchNotGlobalEnded
  /\ IsRegExpObject(search_value)
  /\ regexp.lastIndex = 1
  /\ this_arg = StrV(<<A, B>>)
  /\ ret_value.type = "normal"
  /\ ~ecma_is_value_null(ret_value.value)
  /\ ret_value.value.index = 0

(* ----------------- properties of the passes of conversion ------------- *)

\* the log entry of the passes of the conversion that has ended
Passes == log[Len(log)]

\* C33: for every string and both directions the pass that measures and the
\* pass that writes take the same decisions on the same code units: both run
\* to the end of the input, the bytes written are as many as were measured
\* and the assertion output_start_p + output_length == output_char_p holds
C33_PassesAgree ==
  ConversionEnded =>
    /\ Passes.e = "convert"
    /\ Passes.measure = "ok"
    /\ Passes.write = "ok"
    /\ Passes.output_length = Passes.output_cursor
    /\ pc = "done"

\* the passes agree on every string that does not end in a high surrogate
PassesAgreeNoLastSurrogate ==
  (ConversionEnded
     /\ (this_arg.s = <<>>
           \/ ~lit_is_code_unit_high_surrogate(this_arg.s[Len(this_arg.s)]))) =>
    /\ Passes.e = "convert"
    /\ Passes.measure = "ok"
    /\ Passes.write = "ok"
    /\ Passes.output_length = Passes.output_cursor
    /\ pc = "done"

(* ------------------ properties of surrogates in conversion ------------ *)

lit_is_code_unit_surrogate(c) ==
  lit_is_code_unit_high_surrogate(c) \/ lit_is_code_unit_low_surrogate(c)

\* the surrogate code units of s, in order
Surrogates(s) == SelectSeq(s, lit_is_code_unit_surrogate)

\* the conversion that returned kept every surrogate and mapped the rest
SurrogatesKeptOnReturn ==
  (ConversionEnded /\ pc = "done") =>
    /\ ret_value.type = "normal"
    /\ ret_value.value.s = ConvertedString(this_arg.s, log[1].e \in LowerCaseCalls)
    /\ Surrogates(ret_value.value.s) = Surrogates(this_arg.s)

\* C34: case conversion maps no surrogate code unit: only a high surrogate
\* with a low surrogate after it in the string is taken as a pair, the pair
\* is copied and both code units consumed together, the code units around it
\* are converted on their own, and the surrogates of the output are the
\* surrogates of the input
C34_SurrogatesKept ==
  ConversionEnded =>
    /\ Passes.e = "convert"
    /\ Passes.measure # "ub"
    /\ Passes.write # "ub"
    /\ pc = "done" =>
         /\ ret_value.value.s = ConvertedString(this_arg.s, log[1].e \in LowerCaseCalls)
         /\ Surrogates(ret_value.value.s) = Surrogates(this_arg.s)

(* --------------------- properties of the reads of trim ----------------- *)

\* a read past the last code unit that fails the assertion of the iterator
FailingRead == [assert |-> TRUE, ch |-> LIT_CHAR_NULL]

\* the two counts of trim on s when every read past the last code unit
\* fails: -1 tells that such a read was made
PrefixOf(s) == TrimPrefix(s, ecma_string_get_size(s), 0, FailingRead)
PostfixOf(s) == TrimPostfix(s, ecma_string_get_size(s), PrefixOf(s), 0, FailingRead)

\* new_len of line 2055
NewLenOf(s) ==
  IF PrefixOf(s) < ecma_string_get_size(s)
    THEN ecma_string_get_size(s) - PrefixOf(s) - PostfixOf(s)
    ELSE 0

\* every read of trim on s is of a code unit of s, and the bounds of the
\* substring are within s
TrimInBounds(s) ==
  /\ PrefixOf(s) >= 0
  /\ PostfixOf(s) >= 0
  /\ NewLenOf(s) >= 0
  /\ PrefixOf(s) + NewLenOf(s) <= ecma_string_get_length(s)

\* C35: in trim every read of a code unit uses an index below the number of
\* code units of the string, and the bounds of the substring taken satisfy
\* prefix <= prefix + new_len <= length in code units, for every string,
\* also one whose size in bytes is not its length in code units
C35_TrimInBounds ==
  TrimEnded =>
    /\ TrimInBounds(this_arg.s)
    /\ pc = "done"

\* trim of a string of one-byte code units stays within the string
TrimInBoundsSingleByte ==
  (TrimEnded /\ ecma_string_get_size(this_arg.s) = ecma_string_get_length(this_arg.s)) =>
    /\ TrimInBounds(this_arg.s)
    /\ pc = "done"

\* trim of a string with a code unit of two bytes never stays within it
TrimOutOfBoundsMultiByte ==
  (TrimEnded /\ ecma_string_get_size(this_arg.s) # ecma_string_get_length(this_arg.s)) =>
    ~TrimInBounds(this_arg.s)

(* ---------------- properties of match and replace together ------------ *)

\* the replace made after the match has returned a string
BothReturned ==
  /\ pc = "done"
  /\ frames # <<>>
  /\ frames[1].ret_value.type = "normal"
  /\ ret_value.type = "normal"

\* the matches the match call collected, in order
Collected ==
  SelectSeq(frames[1].log, LAMBDA x : x.e = "exec" /\ ~x.thrown /\ x.v # Null)

\* start position and whole-match string of the matches of a sequence of execs
Reported(hits) == [i \in 1..Len(hits) |-> <<hits[i].v.index, hits[i].v.elems[1]>>]

\* no zero-width match is reported twice at one position
NoZeroWidthTwice(hits) ==
  \A i, j \in 1..Len(hits) :
    (i < j /\ hits[i].v.elems[1] = StrV(<<>>) /\ hits[j].v.elems[1] = StrV(<<>>))
      => hits[i].v.index # hits[j].v.index

\* C36: for the same subject and the same global regular expression, match
\* collects and replace substitutes the same matches (as many, with the same
\* start positions and the same whole-match strings, in the same order), one
\* substitution a match, and neither reports a zero-width match twice at
\* one position
C36_SameMatches ==
  BothReturned =>
    /\ Reported(Collected) = Reported(MatchesFound)
    /\ Len(Substs) = Len(MatchesFound)
    /\ Len(Collected) = n
    /\ NoZeroWidthTwice(Collected)
    /\ NoZeroWidthTwice(MatchesFound)

\* the regular expression asserts the end of the input somewhere
AssertsEnd ==
  \E k \in 1..Len(regexp.alts) :
    PatternText(FlattenSeq(regexp.alts[k])) # FlattenSeq(regexp.alts[k])

\* without an assertion of the end of the input the two loops agree
SameMatchesUnanchored == ~AssertsEnd => C36_SameMatches

\* with the pattern $ and an input that is not empty the match collects the
\* end of the input twice and the replace substitutes it once
EndMatchedTwice ==
  (BothReturned /\ regexp.alts = PatEnd /\ this_arg.s # <<>>) =>
    /\ Len(Collected) = 2
    /\ Collected[1].v.index = Collected[2].v.index
    /\ Len(MatchesFound) = 1

(* ------------------- properties of `$&` and `$0` ----------------------- *)

\* every `$` of tpl stands before `&` or before 0
OnlyZeroAmp(tpl) ==
  \A k \in 1..Len(tpl) :
    tpl[k] = LIT_CHAR_DOLLAR_SIGN =>
      k < Len(tpl) /\ tpl[k + 1] \in {LIT_CHAR_AMPERSAND, LIT_CHAR_0}

\* tpl ends in `$0`
EndsInDollarZero(tpl) ==
  /\ Len(tpl) >= 2
  /\ tpl[Len(tpl) - 1] = LIT_CHAR_DOLLAR_SIGN
  /\ tpl[Len(tpl)] = LIT_CHAR_0

\* such a template from position i (1-based) on, expanded as stated: `$&` is
\* entry 0 of the match, `$0d` with d in 1..9 group d, and `$0` before
\* anything else, or before nothing, stands for itself
RECURSIVE ExpandZeroAmp(_, _, _)
ExpandZeroAmp(tpl, i, elems) ==
  IF i > Len(tpl) THEN <<>>
  ELSE IF tpl[i] = LIT_CHAR_DOLLAR_SIGN /\ i < Len(tpl) /\ tpl[i + 1] = LIT_CHAR_AMPERSAND
    THEN GroupText(elems, 0) \o ExpandZeroAmp(tpl, i + 2, elems)
  ELSE IF tpl[i] = LIT_CHAR_DOLLAR_SIGN /\ i + 1 < Len(tpl) /\ tpl[i + 1] = LIT_CHAR_0
          /\ tpl[i + 2] \in Digits19
    THEN GroupText(elems, tpl[i + 2] - LIT_CHAR_0) \o ExpandZeroAmp(tpl, i + 3, elems)
  ELSE <<tpl[i]>> \o ExpandZeroAmp(tpl, i + 1, elems)

\* the expansion of entry i of the log is the one stated, and no digit
\* reference read entry 0 of the match
ExpandedAsStated(i) ==
  /\ log[i].status = "normal"
  /\ log[i].v.s = ExpandZeroAmp(replace_value.s, 1, log[i - 1].v.elems)
  /\ Avoids(replace_value.s, {LIT_CHAR_AMPERSAND}) =>
       \A k \in 1..Len(log[i].refs) : log[i].refs[k] # 0

\* C37: in a template whose `$` all stand before `&` or 0, `$&` is replaced by
\* the whole match (entry 0), `$0d` with d in 1..9 by capture group d, `$0`
\* not followed by a digit 1..9 is copied literally, and no digit reference
\* uses group index 0 (unless the read of the match entry throws).
C37_ZeroAndAmpersand ==
  \A i \in 1..Len(log) :
    (IsExpansion(i) /\ OnlyZeroAmp(replace_value.s) /\ log[i].status # "throw") =>
      ExpandedAsStated(i)

\* the same holds of the templates that do not end in `$0`
ZeroAndAmpersandInside ==
  \A i \in 1..Len(log) :
    (IsExpansion(i) /\ OnlyZeroAmp(replace_value.s) /\ log[i].status # "throw"
     /\ ~EndsInDollarZero(replace_value.s)) =>
      ExpandedAsStated(i)

\* a template that ends in `$0` is expanded as stated when the character read
\* past its end is not a digit 1..9, and not expanded otherwise
TrailingDollarZero ==
  \A i \in 1..Len(log) :
    (IsExpansion(i) /\ OnlyZeroAmp(replace_value.s) /\ EndsInDollarZero(replace_value.s)
     /\ log[i].status # "throw") =>
      \/ ExpandedAsStated(i)
      \/ log[i].status \in {"fatal", "ub"}

\* no digit reference of any template reads entry 0 of the match
DigitIndexNeverZero ==
  \A i \in 1..Len(log) :
    (IsExpansion(i) /\ Avoids(replace_value.s, {LIT_CHAR_AMPERSAND})) =>
      \A k \in 1..Len(log[i].refs) : log[i].refs[k] # 0

(* ------------------ properties of the template's bounds ---------------- *)

\* every lookahead of expansion i was made before the end of the template
PeeksInside(i) ==
  \A k \in 1..Len(log[i].peeks) : log[i].peeks[k] < Len(replace_value.s)

\* every segment of the template appended by expansion i lies in the template
AppendsInside(i) ==
  \A k \in 1..Len(log[i].appends) :
    /\ log[i].appends[k][1] <= log[i].appends[k][2]
    /\ log[i].appends[k][2] <= Len(replace_value.s)

\* C38: while a template is scanned every lookahead (after `$`, after `$0`,
\* for the second digit after `$n`) is made with the scan position before
\* the end of the template, and at every append of a template segment
\* previous_start <= current_position <= template length.
C38_ScanInBounds ==
  \A i \in 1..Len(log) : IsExpansion(i) => (PeeksInside(i) /\ AppendsInside(i))

\* the segments appended always lie in the template
AppendsInBounds ==
  \A i \in 1..Len(log) : IsExpansion(i) => AppendsInside(i)

\* no lookahead is made further than at the end of the template, and one is
\* made at the end only when the template ends in `$0` or `$n`
PeeksOutsideAtEnd ==
  \A i \in 1..Len(log) :
    IsExpansion(i) =>
      /\ \A k \in 1..Len(log[i].peeks) : log[i].peeks[k] <= Len(replace_value.s)
      /\ ~PeeksInside(i) =>
           /\ Len(replace_value.s) >= 2
           /\ replace_value.s[Len(replace_value.s) - 1] = LIT_CHAR_DOLLAR_SIGN
           /\ replace_value.s[Len(replace_value.s)] \in Digits09

\* a template that ends in `$n` and has no other `$` makes a lookahead at
\* its end
TrailingReferencePeeks ==
  \A i \in 1..Len(log) :
    (IsExpansion(i) /\ Len(replace_value.s) >= 2
     /\ replace_value.s[Len(replace_value.s) - 1] = LIT_CHAR_DOLLAR_SIGN
     /\ replace_value.s[Len(replace_value.s)] \in Digits09
     /\ Avoids(SubSeq(replace_value.s, 1, Len(replace_value.s) - 2), {LIT_CHAR_DOLLAR_SIGN})) =>
      ~PeeksInside(i)

(* ---------------- properties of lastIndexOf and split ------------------ *)

\* lastIndexOf or split was called
UnimplementedCalled == Called("last_index_of_call") \/ Called("split_call")

\* the call has made no step and has no result
NothingDone ==
  /\ pc \in UnimplementedCalls \cup {"fatal"}
  /\ ret_value = EmptyCompletion
  /\ Steps = <<>>
  /\ Len(log) = 1

\* C39: lastIndexOf and split never produce a result: every call reaches the
\* fatal "not implemented" signal, and does so without the coercible check,
\* without a coercion of this or of an argument, and without any other step.
C39_NotImplemented ==
  /\ [](UnimplementedCalled => NothingDone)
  /\ (UnimplementedCalled ~> (pc = "fatal" /\ NothingDone))

C39_Witness ==
  /\ pc = "fatal"
  /\ Called("split_call")
  /\ ecma_is_value_undefined(this_arg)
  /\ search_value = ThrowingObj
  /\ replace_value = ThrowingObj
  /\ NothingDone

\* in a call of any routine, too, the two make no step and return nothing
NotImplementedAmongAll == UnimplementedCalled => NothingDone

====
